---- MODULE Spec2Model ----
(***************************************************************************)
(* A model of the craftlog LeWitt drawing engine: the seeded random        *)
(* stream, the severity and hatch parameter mappers, the geometric clips,  *)
(* the cell renderer and the grid composer.                                *)
(*                                                                         *)
(* Numbers.  TLC integers are 32-bit signed, so a 32-bit word of the       *)
(* generator is a pair <<hi, lo>> of 16-bit halves, and a fraction of the  *)
(* form k / 2^32 is kept as the word k.  Decimal quantities are kept in    *)
(* fixed point (severity in thousandths, weights in ten-thousandths).      *)
(***************************************************************************)
EXTENDS Integers, Sequences, FiniteSets, TLC

VARIABLES
    genSeed,    \* SeededRandom: generator -> this.seed
    outs,       \* SeededRandom: generator -> the values its calls returned
    script,     \* SeededRandom: the sequence of calls made on the generators
    pin,        \* a pure function under study: its arguments
    pout,       \* a pure function under study: its result, once applied
    events,     \* the event objects handed to drawLeWittGrid, annotations included
    renderConfig, \* the configuration handed to drawLeWittGrid
    now,        \* the clock read by Date.now()
    run,        \* the drawLeWittGrid call in progress: its locals and its calls on g
    passes,     \* the drawLeWittGrid calls that ended, in order
    instructions, \* the configurations downloadInstructions printed, in order
    button,     \* the render button: disabled, textContent
    jobs        \* the renderB1Tiles calls started by clicks, in order

rngVars == <<genSeed, outs, script>>
pureVars == <<pin, pout>>
pageVars == <<button, jobs>>
gridVars == <<events, renderConfig, now, run, passes, instructions, button, jobs>>
vars == <<genSeed, outs, script, pin, pout, events, renderConfig, now, run, passes,
         instructions, button, jobs>>

----------------------------------------------------------------------------
(* 32-bit words as <<hi, lo>>, each half in 0 .. 65535 *)

Half == 2^16
Byte == 2^8

Nibble == 2^4

\* the bitwise operations on two bits
XorPair(a, b) == ((a + b) % 2) + 2 * (((a \div 2) + (b \div 2)) % 2)

OrPair(a, b) ==
    (IF (a % 2) + (b % 2) > 0 THEN 1 ELSE 0)
    + 2 * (IF ((a \div 2) % 2) + ((b \div 2) % 2) > 0 THEN 1 ELSE 0)

\* ... and on four bits, tabulated
XorNibble ==
    [a \in 0 .. Nibble - 1 |-> [b \in 0 .. Nibble - 1 |->
        XorPair(a % 4, b % 4) + 4 * XorPair(a \div 4, b \div 4)]]

OrNibble ==
    [a \in 0 .. Nibble - 1 |-> [b \in 0 .. Nibble - 1 |->
        OrPair(a % 4, b % 4) + 4 * OrPair(a \div 4, b \div 4)]]

\* the n-th four bits of a half
NibbleOf(a, n) == (a \div (Nibble ^ n)) % Nibble

\* ... and on halves
XorBits(a, b) ==
    XorNibble[NibbleOf(a, 0)][NibbleOf(b, 0)]
    + Nibble * XorNibble[NibbleOf(a, 1)][NibbleOf(b, 1)]
    + Nibble ^ 2 * XorNibble[NibbleOf(a, 2)][NibbleOf(b, 2)]
    + Nibble ^ 3 * XorNibble[NibbleOf(a, 3)][NibbleOf(b, 3)]

OrBits(a, b) ==
    OrNibble[NibbleOf(a, 0)][NibbleOf(b, 0)]
    + Nibble * OrNibble[NibbleOf(a, 1)][NibbleOf(b, 1)]
    + Nibble ^ 2 * OrNibble[NibbleOf(a, 2)][NibbleOf(b, 2)]
    + Nibble ^ 3 * OrNibble[NibbleOf(a, 3)][NibbleOf(b, 3)]

Pow2(k) == 2^k

\* x ^ y
WXor(x, y) == <<XorBits(x[1], y[1]), XorBits(x[2], y[2])>>

\* x | c for a constant c below 2^16
WOrLow(x, c) == <<x[1], OrBits(x[2], c)>>

\* x >>> k for 0 < k < 16
WShr(x, k) ==
    <<x[1] \div Pow2(k), (x[2] \div Pow2(k)) + (x[1] % Pow2(k)) * Pow2(16 - k)>>

\* (x + y) mod 2^32: the ToInt32 of a sum of two 32-bit values
WAdd(x, y) ==
    LET l == x[2] + y[2]
    IN  <<(x[1] + y[1] + (l \div Half)) % Half, l % Half>>

\* (a * b) mod 2^16 for halves a, b, by bytes so that no product overflows
MulLow16(a, b) ==
    LET a1 == a \div Byte  a0 == a % Byte
        b1 == b \div Byte  b0 == b % Byte
    IN  ((((a1 * b0 + a0 * b1) % Byte) * Byte) + a0 * b0) % Half

\* (a * b) div 2^16 mod 2^16 for halves a, b
MulHigh16(a, b) ==
    LET a1 == a \div Byte  a0 == a % Byte
        b1 == b \div Byte  b0 == b % Byte
        m  == (a1 * b0 + a0 * b1) * Byte + a0 * b0
    IN  (a1 * b1 + (m \div Half)) % Half

\* Math.imul(x, y): the low 32 bits of the product
WMul(x, y) ==
    <<(MulHigh16(x[2], y[2]) + MulLow16(x[1], y[2]) + MulLow16(x[2], y[1])) % Half,
      MulLow16(x[2], y[2])>>

----------------------------------------------------------------------------
(* SeededRandom (Mulberry32).  this.seed is a JavaScript number that the   *)
(* code never truncates: it is kept as [ovf, w] with value ovf * 2^32 + w. *)

\* 0x6D2B79F5 = 27947 * 65536 + 31221
IncHi == 27947
IncLo == 31221

Seed(ovf, hi, lo) == [ovf |-> ovf, w |-> <<hi, lo>>]

\* this.seed += 0x6D2B79F5
SeedAdvance(s) ==
    LET l == s.w[2] + IncLo
        h == s.w[1] + IncHi + (l \div Half)
    IN  [ovf |-> s.ovf + (h \div Half), w |-> <<h % Half, l % Half>>]

\* the 32-bit mixing of next(): t is the advanced seed, taken modulo 2^32 by
\* the first bitwise operator applied to it
Mix(t) ==
    LET a == WMul(WXor(t, WShr(t, 15)), WOrLow(t, 1))
        b == WXor(a, WAdd(a, WMul(WXor(a, WShr(a, 7)), WOrLow(a, 61))))
    IN  WXor(b, WShr(b, 14))

\* A number int + frac / 2^32 with 0 <= frac < 2^32
Fx(int, frac) == [int |-> int, frac |-> frac]

\* a word read as a signed 32-bit integer, divided by 2^32
SignedUnit(w) == Fx(IF w[1] >= 32768 THEN -1 ELSE 0, w)

\* (w >>> 0) / 4294967296
ToUnit(w) == Fx(0, w)

\* next(): <<new seed, value>>
RngNext(s) ==
    LET s2 == SeedAdvance(s)
    IN  <<s2, ToUnit(Mix(s2.w))>>

\* min + u * (max - min) for integers min, max and u = next()
Scale(u, min, max) ==
    LET span == max - min
        l == u.frac[2] * span
        h == u.frac[1] * span + (l \div Half)
    IN  Fx(min + u.int * span + (h \div Half), <<h % Half, l % Half>>)

\* range(min, max): <<new seed, value>>
RngRange(s, min, max) ==
    LET r == RngNext(s)
    IN  <<r[1], Scale(r[2], min, max)>>

\* Math.floor of a fixed-point number
Floor(x) == x.int

\* Math.round of a fixed-point number (half rounds up)
Round(x) == IF x.frac[1] >= 32768 THEN x.int + 1 ELSE x.int

\* int(min, max): <<new seed, value>>
RngInt(s, min, max) ==
    LET r == RngRange(s, min, max + 1)
    IN  <<r[1], Floor(r[2])>>

----------------------------------------------------------------------------
(* Two SeededRandom objects built from one seed and driven by one sequence *)
(* of calls, in any interleaving.                                          *)

Gens == {1, 2}

\* the longest call sequence explored
MaxDraws == 3

\* the seeds explored: small, the tile renderer's 12345, the largest 32-bit
\* value, and one of the size of Date.now() (above 2^32)
SeedSet == {Seed(0, 0, 1), Seed(0, 0, 12345), Seed(0, 65535, 65535), Seed(400, 0, 777)}

\* the (min, max) arguments explored for range and int
ArgPairs == {<<0, 0>>, <<1, 6>>, <<-2, 3>>}

CallSet ==
    {[op |-> "next", min |-> 0, max |-> 0]}
    \cup {[op |-> o, min |-> p[1], max |-> p[2]] : o \in {"range", "int"}, p \in ArgPairs}

\* new SeededRandom(seed): this.seed = seed
RngIdle == genSeed = <<>> /\ outs = <<>> /\ script = <<>>

PureIdle == pin = <<>> /\ pout = <<>>

\* no drawLeWittGrid call made or in progress
IdleRun ==
    [pc |-> "idle", seed |-> Seed(0, 0, 0), rng |-> Seed(0, 0, 0), prepared |-> <<>>,
     gridSize |-> 0, row |-> 0, colIdx |-> 0, eventIdx |-> 0, points |-> <<>>,
     visited |-> <<>>, given |-> <<>>, calls |-> <<>>]

\* the button as the page shows it before any click
IdleButton == [disabled |-> FALSE, textContent |-> "Render B1 (8 tiles)"]

PageIdle == button = IdleButton /\ jobs = <<>>

GridIdle ==
    /\ events = <<>> /\ renderConfig = <<>> /\ now = 0 /\ run = IdleRun /\ passes = <<>>
    /\ instructions = <<>> /\ PageIdle

InitRng ==
    /\ \E s \in SeedSet : genSeed = [g \in Gens |-> s]
    /\ outs = [g \in Gens |-> <<>>]
    /\ script = <<>>
    /\ PureIdle
    /\ GridIdle

\* a seed kept in one place for all generators instead of in each object
SharedSeed(g) == genSeed[1]

\* the object's own state, read by next()
ThisSeed(g) == genSeed[g]

\* generator g makes call c: the next call of the common sequence, which g
\* extends when it is ahead of the other generator
Follows(g, c) ==
    /\ Len(outs[g]) < MaxDraws
    /\ IF Len(outs[g]) < Len(script)
       THEN c = script[Len(outs[g]) + 1] /\ script' = script
       ELSE script' = Append(script, c)

Returns(g, r) ==
    /\ genSeed' = [genSeed EXCEPT ![g] = r[1]]
    /\ outs' = [outs EXCEPT ![g] = Append(@, r[2])]
    /\ UNCHANGED <<pureVars, gridVars>>

CallNext(g) ==
    /\ Follows(g, [op |-> "next", min |-> 0, max |-> 0])
    /\ Returns(g, RngNext(ThisSeed(g)))

CallRange(g, min, max) ==
    /\ Follows(g, [op |-> "range", min |-> min, max |-> max])
    /\ Returns(g, RngRange(ThisSeed(g), min, max))

CallInt(g, min, max) ==
    /\ Follows(g, [op |-> "int", min |-> min, max |-> max])
    /\ Returns(g, RngInt(ThisSeed(g), min, max))

NextRng ==
    \E g \in Gens :
        \/ CallNext(g)
        \/ \E p \in ArgPairs : CallRange(g, p[1], p[2])
        \/ \E p \in ArgPairs : CallInt(g, p[1], p[2])

SpecRng == InitRng /\ [][NextRng]_vars

\* the k-th call of generator g and the value it returned
CallOf(k) == script[k]
Drawn(g) == 1 .. Len(outs[g])

\* C9: two generators created with the same seed and given the same sequence
\* of next/range/int calls return the same sequence of values.
C9_SameSeedSameValues ==
    \A k \in Drawn(1) \cap Drawn(2) : outs[1][k] = outs[2][k]

C9_Witness ==
    /\ Len(outs[1]) >= 2 /\ Len(outs[2]) >= 2
    /\ script[1].op = "range" /\ script[1].min < script[1].max
    /\ script[2].op = "next"
    /\ outs[1][1] # outs[1][2]

InUnit(v) == v.int = 0 /\ v.frac[1] \in 0 .. Half - 1 /\ v.frac[2] \in 0 .. Half - 1

\* min <= v < max for a fixed-point v and integers min, max
InHalfOpen(v, min, max) == min <= v.int /\ v.int < max

IntOk(v, min, max) == v \in Int /\ min <= v /\ v <= max

\* C10 as stated: next() is in [0,1), range(min,max) in [min,max) and
\* int(min,max) an integer in [min,max], for every min <= max.
C10_Original ==
    \A g \in Gens : \A k \in Drawn(g) :
        CASE CallOf(k).op = "next"  -> InUnit(outs[g][k])
          [] CallOf(k).op = "range" -> InHalfOpen(outs[g][k], CallOf(k).min, CallOf(k).max)
          [] CallOf(k).op = "int"   -> IntOk(outs[g][k], CallOf(k).min, CallOf(k).max)

\* C10 as amended: next() is in [0,1); range(min,max) is in [min,max) when
\* min < max and is exactly min when min = max; int(min,max) is an integer
\* in [min,max] for min <= max.
C10_Ranges ==
    \A g \in Gens : \A k \in Drawn(g) :
        CASE CallOf(k).op = "next"  -> InUnit(outs[g][k])
          [] CallOf(k).op = "range" ->
                IF CallOf(k).min < CallOf(k).max
                THEN InHalfOpen(outs[g][k], CallOf(k).min, CallOf(k).max)
                ELSE outs[g][k] = Fx(CallOf(k).min, <<0, 0>>)
          [] CallOf(k).op = "int"   -> IntOk(outs[g][k], CallOf(k).min, CallOf(k).max)

\* after two earlier draws: a range over an empty interval, an int that
\* returned its upper limit and a draw from a seed above 2^32
C10_Witness ==
    /\ Len(outs[1]) = 3
    /\ \E k \in Drawn(1) : CallOf(k).op = "range" /\ CallOf(k).min = CallOf(k).max
    /\ \E k \in Drawn(1) : CallOf(k).op = "int" /\ outs[1][k] = CallOf(k).max
                           /\ CallOf(k).min < CallOf(k).max
    /\ genSeed[1].ovf > 0

\* C19: after a draw the state of the generator is one unsigned 32-bit
\* integer, the state before the draw plus 0x6D2B79F5 modulo 2^32.
C19_State32 ==
    [][\A g \in Gens :
          genSeed'[g] # genSeed[g] =>
              /\ genSeed'[g].ovf = 0
              /\ genSeed'[g].w = WAdd(genSeed[g].w, <<IncHi, IncLo>>)]_vars

----------------------------------------------------------------------------
(* Helpers and the severity mapper.  Severity is kept in thousandths;      *)
(* spacing, weight and alpha in ten-thousandths.                           *)

Milli == 10^3
TenK == 10^4

Max(a, b) == IF a >= b THEN a ELSE b
Min(a, b) == IF a <= b THEN a ELSE b

\* Math.min(min, Math.max(max, value)): the two bounds exchanged
clampSwapped(value, min, max) == Min(min, Max(max, value))

\* clamp(value, min, max)
clamp(value, min, max) == Max(min, Min(max, value))

\* lerp(a, b, t) with t in thousandths
lerp(a, b, t) == a + ((b - a) * t) \div Milli

\* Math.floor(Math.sqrt(k)) for an integer k >= 0: the largest n, up to
\* 2^15, whose square is at most k
FloorSqrt(k) ==
    LET hi == IF k < 2^15 THEN k ELSE 2^15
    IN  CHOOSE n \in 0 .. hi : n * n <= k /\ (n = hi \/ k < (n + 1) * (n + 1))

\* Math.round(Math.sqrt(k)) for an integer k >= 0: sqrt(k) >= n + 1/2 exactly
\* when k > n*n + n
RoundSqrt(k) ==
    LET n == FloorSqrt(k)
    IN  IF k > n * n + n THEN n + 1 ELSE n

\* Math.log1p in thousandths, at the character counts explored
Log1pTable ==
    {<<0, 0>>, <<1, 693>>, <<2, 1099>>, <<40, 3714>>, <<41, 3738>>, <<80, 4394>>,
     <<1000, 6909>>, <<3000, 8007>>, <<3001, 8007>>, <<3040, 8020>>, <<6000, 8700>>,
     <<30000, 10309>>, <<100000, 11513>>, <<100001, 11513>>, <<100040, 11513>>,
     <<103000, 11542>>}
log1p(c) == (CHOOSE e \in Log1pTable : e[1] = c)[2]

REF == 30000

\* the flags and the delta of an event; present = FALSE stands for null
NoFlags == [present |-> FALSE, is_paste_like |-> FALSE, is_undo_like |-> FALSE,
            is_redo_like |-> FALSE]
NoDelta == [present |-> FALSE, added_chars |-> 0, deleted_chars |-> 0]

\* the edit rules with the undo and redo tests exchanged
flagSeverityRedoFirst(flags) ==
    IF flags.is_redo_like THEN 250
    ELSE IF flags.is_undo_like THEN 150
    ELSE IF flags.is_paste_like THEN 850
    ELSE -1

\* the three flag tests of calculateSeverity; -1 when none matches
flagSeverity(flags) ==
    IF flags.is_undo_like THEN 150
    ELSE IF flags.is_redo_like THEN 250
    ELSE IF flags.is_paste_like THEN 850
    ELSE -1

\* the severity of an edit from its change amount
changeSeverity(delta) ==
    LET chars == delta.added_chars + delta.deleted_chars
        normalized == (log1p(chars) * Milli) \div log1p(REF)
        severity == clamp(FloorSqrt(normalized * Milli), 0, Milli)
    IN  Max(100, severity)

calculateSeverity(event) ==
    IF event.event = "policy_violation" THEN Milli
    ELSE IF event.event = "edit" THEN
        IF flagSeverity(event.flags) >= 0 THEN flagSeverity(event.flags)
        ELSE changeSeverity(event.delta)
    ELSE IF event.event = "snapshot" THEN 200
    ELSE IF event.event = "session_start" THEN 400
    ELSE IF event.event = "session_pause" THEN 300
    ELSE IF event.event = "session_resume" THEN 350
    ELSE IF event.event = "mode_change" THEN 300
    ELSE 500

----------------------------------------------------------------------------
(* The configuration and the parameter mappers *)

LEWITT_CONFIG ==
    [marginRatio |-> 5,          \* in hundredths
     maxEvents |-> 530, sampling |-> "uniform", order |-> "time",
     minGridSize |-> 5, maxGridSize |-> 27, seed |-> 0]

hatching ==
    [spacingMin |-> 4 * TenK, spacingMax |-> 18 * TenK,
     spacingClampMin |-> 3 * TenK, spacingClampMax |-> 24 * TenK,
     weightMin |-> 6000, weightMax |-> 3 * TenK,
     policyViolationWeightBonus |-> 1 * TenK,
     alphaMin |-> 40 * TenK, alphaMax |-> 200 * TenK,
     cellBorderWeight |-> 5000, cellBorderAlpha |-> 25]

\* Math.round of a value in ten-thousandths (half rounds up)
round(v) == (v + TenK \div 2) \div TenK

calculateGridSize(eventCount, config) ==
    LET k == Min(eventCount, config.maxEvents)
        n == RoundSqrt(k)
    IN  clamp(n, config.minGridSize, config.maxGridSize)

\* the spacing interpolated from spacingMin up to spacingMax
getHatchParamsUninverted(severity) ==
    [spacing |-> clamp(lerp(hatching.spacingMin, hatching.spacingMax, severity),
                       hatching.spacingClampMin, hatching.spacingClampMax),
     weight |-> lerp(hatching.weightMin, hatching.weightMax, severity),
     alpha |-> round(lerp(hatching.alphaMin, hatching.alphaMax, severity))]

getHatchParams(severity) ==
    [spacing |-> clamp(lerp(hatching.spacingMax, hatching.spacingMin, severity),
                       hatching.spacingClampMin, hatching.spacingClampMax),
     weight |-> lerp(hatching.weightMin, hatching.weightMax, severity),
     alpha |-> round(lerp(hatching.alphaMin, hatching.alphaMax, severity))]

\* the weight drawPolicyViolationCell passes to drawHatchLines
policyViolationWeight(severity) ==
    getHatchParams(severity).weight + hatching.policyViolationWeightBonus

----------------------------------------------------------------------------
(* calculateGridSize applied to one event count and configuration *)

MaxEventCount == 30
MaxCfgEvents == 12
MaxGrid == 4

GridCfg(c) ==
    [maxEvents |-> c.maxEvents, minGridSize |-> c.minGridSize, maxGridSize |-> c.maxGridSize]

CountSet == 0 .. MaxEventCount \cup {25, 529, 530, 531, 1000}

GridConfigs ==
    {c \in [maxEvents : 0 .. MaxCfgEvents, minGridSize : 0 .. MaxGrid,
            maxGridSize : 0 .. MaxGrid] : c.minGridSize <= c.maxGridSize}
    \cup {GridCfg(LEWITT_CONFIG)}

InitGridSize ==
    /\ pin \in [fn : {"calculateGridSize"}, eventCount : CountSet, config : GridConfigs]
    /\ pout = <<>>
    /\ RngIdle
    /\ GridIdle

ApplyGridSize ==
    /\ pin.fn = "calculateGridSize" /\ pout = <<>>
    /\ pout' = <<calculateGridSize(pin.eventCount, pin.config)>>
    /\ UNCHANGED <<pin, rngVars, gridVars>>

SpecGridSize == InitGridSize /\ [][ApplyGridSize]_vars

\* the integer nearest to sqrt(k), a half counting upwards
NearestToSqrt(k) ==
    CHOOSE n \in 0 .. k : (n = 0 \/ (2 * n - 1) * (2 * n - 1) <= 4 * k)
                          /\ 4 * k < (2 * n + 1) * (2 * n + 1)

Clamped(v, lo, hi) == IF v < lo THEN lo ELSE IF v > hi THEN hi ELSE v

\* C3: for every eventCount >= 0 and every configuration with minGridSize <=
\* maxGridSize the grid size is clamp(round(sqrt(min(eventCount, maxEvents)))),
\* a value in [minGridSize, maxGridSize]; 25 events give 5 under the defaults.
C3_GridSize ==
    pout # <<>> =>
        LET c == pin.config
            k == IF pin.eventCount < c.maxEvents THEN pin.eventCount ELSE c.maxEvents
        IN  /\ pout[1] \in c.minGridSize .. c.maxGridSize
            /\ pout[1] = Clamped(NearestToSqrt(k), c.minGridSize, c.maxGridSize)
            /\ (pin.eventCount = 25 /\ c = GridCfg(LEWITT_CONFIG) => pout[1] = 5)

C3_Witness ==
    /\ pout = <<5>> /\ pin.eventCount = 25 /\ pin.config = GridCfg(LEWITT_CONFIG)

----------------------------------------------------------------------------
(* calculateSeverity applied to one event *)

Kinds == {"policy_violation", "edit", "snapshot", "session_start", "session_pause",
          "session_resume", "mode_change", "ai_prompt", "file_open"}

FlagSets ==
    {NoFlags} \cup [present : {TRUE}, is_paste_like : BOOLEAN, is_undo_like : BOOLEAN,
                    is_redo_like : BOOLEAN]

AddedSamples == {0, 1, 40, 3000, 100000}
DeletedSamples == {0, 1, 40, 3000}

DeltaSets ==
    {NoDelta} \cup [present : {TRUE}, added_chars : AddedSamples,
                    deleted_chars : DeletedSamples]

InitSeverity ==
    /\ pin \in [fn : {"calculateSeverity"}, event : Kinds, flags : FlagSets, delta : DeltaSets]
    /\ pout = <<>>
    /\ RngIdle
    /\ GridIdle

ApplySeverity ==
    /\ pin.fn = "calculateSeverity" /\ pout = <<>>
    /\ pout' = <<calculateSeverity(pin)>>
    /\ UNCHANGED <<pin, rngVars, gridVars>>

SpecSeverity == InitSeverity /\ [][ApplySeverity]_vars

KindSeverity ==
    [k \in Kinds |->
        CASE k = "policy_violation" -> 1000
          [] k = "snapshot" -> 200
          [] k = "session_start" -> 400
          [] k = "session_pause" -> 300
          [] k = "session_resume" -> 350
          [] k = "mode_change" -> 300
          [] OTHER -> 500]

\* C5: the severity rules in priority order, first match wins, and the result
\* is in [0,1] (0 .. 1000 thousandths) for every event.
C5_SeverityRules ==
    pout # <<>> =>
        LET v == pout[1]
            f == pin.flags
            chars == pin.delta.added_chars + pin.delta.deleted_chars
        IN  /\ v \in 0 .. 1000
            /\ pin.event = "policy_violation" => v = 1000
            /\ pin.event = "edit" /\ f.is_undo_like => v = 150
            /\ pin.event = "edit" /\ ~f.is_undo_like /\ f.is_redo_like => v = 250
            /\ pin.event = "edit" /\ ~f.is_undo_like /\ ~f.is_redo_like /\ f.is_paste_like
                   => v = 850
            /\ pin.event = "edit" /\ ~f.is_undo_like /\ ~f.is_redo_like /\ ~f.is_paste_like
                   => /\ v >= 100
                      /\ chars = 0 => v = 100
            /\ pin.event # "edit" => v = KindSeverity[pin.event]

\* a paste-like, undo-like edit with a large delta has been scored
C5_Witness ==
    /\ pout = <<150>> /\ pin.event = "edit"
    /\ pin.flags.is_undo_like /\ pin.flags.is_redo_like /\ pin.flags.is_paste_like
    /\ pin.delta.added_chars = 100000

----------------------------------------------------------------------------
(* getHatchParams applied to two severities *)

\* the second severity is taken every SeverityStep thousandths
SeverityStep == 50

InitHatch ==
    /\ pin \in [fn : {"getHatchParams"}, s1 : 0 .. Milli,
                s2 : {k * SeverityStep : k \in 0 .. (Milli \div SeverityStep)} \cup {Milli}]
    /\ pout = <<>>
    /\ RngIdle
    /\ GridIdle

ApplyHatch ==
    /\ pin.fn = "getHatchParams" /\ pout = <<>>
    /\ pout' = <<[p1 |-> getHatchParams(pin.s1), p2 |-> getHatchParams(pin.s2),
                  pv |-> policyViolationWeight(pin.s1)]>>
    /\ UNCHANGED <<pin, rngVars, gridVars>>

SpecHatch == InitHatch /\ [][ApplyHatch]_vars

\* C6: for s in [0,1] spacing is in [3,24], weight in [0.6,3.0], alpha in
\* [40,200]; for s1 <= s2 spacing does not increase and weight and alpha do not
\* decrease; a policy-violation cell uses a weight exactly 1.0 above weight(s).
C6_HatchParams ==
    pout # <<>> =>
        LET a == pout[1].p1
            b == pout[1].p2
        IN  /\ 3 * TenK <= a.spacing /\ a.spacing <= 24 * TenK
            /\ 6000 <= a.weight /\ a.weight <= 3 * TenK
            /\ 40 <= a.alpha /\ a.alpha <= 200
            /\ pin.s1 <= pin.s2 =>
                   a.spacing >= b.spacing /\ a.weight <= b.weight /\ a.alpha <= b.alpha
            /\ pout[1].pv = a.weight + TenK

C6_Witness ==
    /\ pout # <<>> /\ pin.s1 = 333 /\ pin.s2 = 1000
    /\ pout[1].p1.spacing > pout[1].p2.spacing
    /\ pout[1].p2 = [spacing |-> 4 * TenK, weight |-> 3 * TenK, alpha |-> 200]
    /\ pout[1].pv > 2 * TenK

----------------------------------------------------------------------------
(* Geometric primitives, in exact rational arithmetic: a rational is a     *)
(* pair <<n, d>> with d > 0, and the arguments explored are integers.      *)

Rat(n, d) == IF d < 0 THEN <<-n, -d>> ELSE <<n, d>>
RInt(k) == <<k, 1>>
RLt(a, b) == a[1] * b[2] < b[1] * a[2]
RLe(a, b) == a[1] * b[2] <= b[1] * a[2]
REq(a, b) == a[1] * b[2] = b[1] * a[2]
Abs(k) == IF k < 0 THEN -k ELSE k

\* a + t * d for integers a, d and a rational t
Along(a, t, d) == <<a * t[2] + t[1] * d, t[2]>>

\* the q array with the rectangle's width used for its height
clipQSquare(x1, y1, rx, ry, rw, rh) == <<x1 - rx, rx + rw - x1, y1 - ry, ry + rw - y1>>

\* const q = [x1 - rx, rx + rw - x1, y1 - ry, ry + rh - y1]
clipQ(x1, y1, rx, ry, rw, rh) == <<x1 - rx, rx + rw - x1, y1 - ry, ry + rh - y1>>

\* the loop of clipLineToRect from index i on: <<>> for null, else <<t0, t1>>
RECURSIVE clipLoop(_, _, _, _, _)
clipLoop(i, p, q, t0, t1) ==
    IF i > 4 THEN <<t0, t1>>
    ELSE IF p[i] = 0 THEN
        IF q[i] < 0 THEN <<>> ELSE clipLoop(i + 1, p, q, t0, t1)
    ELSE
        LET t == Rat(q[i], p[i])
        IN  IF p[i] < 0 THEN
                IF RLt(t1, t) THEN <<>>
                ELSE clipLoop(i + 1, p, q, IF RLt(t0, t) THEN t ELSE t0, t1)
            ELSE
                IF RLt(t, t0) THEN <<>>
                ELSE clipLoop(i + 1, p, q, t0, IF RLt(t, t1) THEN t ELSE t1)

\* clipLineToRect: <<>> for null, else the clipped [x1, y1, x2, y2]
clipLineToRect(x1, y1, x2, y2, rx, ry, rw, rh) ==
    LET dx == x2 - x1
        dy == y2 - y1
        p == <<-dx, dx, -dy, dy>>
        q == clipQ(x1, y1, rx, ry, rw, rh)
        t == clipLoop(1, p, q, RInt(0), RInt(1))
    IN  IF t = <<>> THEN <<>>
        ELSE <<Along(x1, t[1], dx), Along(y1, t[1], dy),
               Along(x1, t[2], dx), Along(y1, t[2], dy)>>

\* the inside test with strict comparisons
insideRectOpen(x, y, rx, ry, rx2, ry2) == x > rx /\ x < rx2 /\ y > ry /\ y < ry2

\* x >= rx && x <= rx2 && y >= ry && y <= ry2
insideRect(x, y, rx, ry, rx2, ry2) == x >= rx /\ x <= rx2 /\ y >= ry /\ y <= ry2

\* a rational between two integers, both included
RBetween(v, lo, hi) == RLe(RInt(lo), v) /\ RLe(v, RInt(hi))

InUnitT(t) == RLe(RInt(0), t) /\ RLe(t, RInt(1))

\* the intersection with the vertical edge x = ex, if any
edgeX(x1, y1, dx, dy, ex, ry, ry2) ==
    IF dx = 0 THEN <<>>
    ELSE LET t == Rat(ex - x1, dx)
             y == Along(y1, t, dy)
         IN  IF InUnitT(t) /\ RBetween(y, ry, ry2)
             THEN <<[t |-> t, x |-> RInt(ex), y |-> y]>> ELSE <<>>

\* the intersection with the horizontal edge y = ey, if any
edgeY(x1, y1, dx, dy, ey, rx, rx2) ==
    IF dy = 0 THEN <<>>
    ELSE LET t == Rat(ey - y1, dy)
             x == Along(x1, t, dx)
         IN  IF InUnitT(t) /\ RBetween(x, rx, rx2)
             THEN <<[t |-> t, x |-> x, y |-> RInt(ey)]>> ELSE <<>>

\* intersections.sort((a, b) => a.t - b.t): a stable insertion sort
RECURSIVE insertByT(_, _)
insertByT(sorted, e) ==
    IF sorted = <<>> THEN <<e>>
    ELSE IF RLt(e.t, sorted[Len(sorted)].t)
         THEN Append(insertByT(SubSeq(sorted, 1, Len(sorted) - 1), e), sorted[Len(sorted)])
         ELSE Append(sorted, e)

RECURSIVE sortByT(_)
sortByT(xs) ==
    IF xs = <<>> THEN <<>>
    ELSE insertByT(sortByT(SubSeq(xs, 1, Len(xs) - 1)), xs[Len(xs)])

\* Math.abs(a - b) > 0.0001
FarApart(a, b) == Abs(a[1] * b[2] - b[1] * a[2]) * TenK > a[2] * b[2]

\* the duplicate removal of drawLineWithRectHole
RECURSIVE uniqueByT(_)
uniqueByT(xs) ==
    IF Len(xs) <= 1 THEN xs
    ELSE LET u == uniqueByT(SubSeq(xs, 1, Len(xs) - 1))
         IN  IF FarApart(xs[Len(xs)].t, u[Len(u)].t) THEN Append(u, xs[Len(xs)]) ELSE u

\* drawLineWithRectHole: the g.line calls it makes, in order
drawLineWithRectHole(x1, y1, x2, y2, rect) ==
    LET rx == rect.x
        ry == rect.y
        rx2 == rect.x + rect.w
        ry2 == rect.y + rect.h
        p1Inside == insideRect(x1, y1, rx, ry, rx2, ry2)
        p2Inside == insideRect(x2, y2, rx, ry, rx2, ry2)
        dx == x2 - x1
        dy == y2 - y1
        intersections == edgeX(x1, y1, dx, dy, rx, ry, ry2) \o edgeX(x1, y1, dx, dy, rx2, ry, ry2)
                         \o edgeY(x1, y1, dx, dy, ry, rx, rx2) \o edgeY(x1, y1, dx, dy, ry2, rx, rx2)
        unique == uniqueByT(sortByT(intersections))
        enter == unique[1]
        exit == unique[Len(unique)]
        P1 == <<RInt(x1), RInt(y1)>>
        P2 == <<RInt(x2), RInt(y2)>>
    IN  IF p1Inside /\ p2Inside THEN <<>>
        ELSE IF intersections = <<>> THEN <<P1 \o P2>>
        ELSE IF Len(unique) >= 2 THEN
            (IF ~p1Inside /\ RLt(<<1, 1000>>, enter.t)
             THEN <<P1 \o <<enter.x, enter.y>>>> ELSE <<>>)
            \o (IF ~p2Inside /\ RLt(exit.t, <<999, 1000>>)
                THEN <<<<exit.x, exit.y>> \o P2>> ELSE <<>>)
        ELSE IF p1Inside THEN <<<<unique[1].x, unique[1].y>> \o P2>>
        ELSE <<P1 \o <<unique[1].x, unique[1].y>>>>

----------------------------------------------------------------------------
(* The two clips applied to one segment and one rectangle *)

\* the coordinates of the segment's endpoints are 0 .. CoordMax
CoordMax == 4

Segments == [x1 : 0 .. CoordMax, y1 : 0 .. CoordMax, x2 : 0 .. CoordMax, y2 : 0 .. CoordMax]

\* rectangles inside the coordinate range, the degenerate ones included
ClipRects == [x : {1}, y : {1, 2}, w : 0 .. 2, h : 0 .. 2]

\* erase rectangles: eraseW and eraseH are positive
HoleRects == [x : {1}, y : {1, 2}, w : 1 .. 2, h : 1 .. 2]

InitGeom ==
    /\ \/ pin \in [fn : {"clipLineToRect"}, seg : Segments, rect : ClipRects]
       \/ pin \in [fn : {"drawLineWithRectHole"}, seg : Segments, rect : HoleRects]
    /\ pout = <<>>
    /\ RngIdle
    /\ GridIdle

ApplyClip ==
    /\ pin.fn = "clipLineToRect" /\ pout = <<>>
    /\ pout' = <<clipLineToRect(pin.seg.x1, pin.seg.y1, pin.seg.x2, pin.seg.y2,
                                pin.rect.x, pin.rect.y, pin.rect.w, pin.rect.h)>>
    /\ UNCHANGED <<pin, rngVars, gridVars>>

ApplyHole ==
    /\ pin.fn = "drawLineWithRectHole" /\ pout = <<>>
    /\ pout' = <<drawLineWithRectHole(pin.seg.x1, pin.seg.y1, pin.seg.x2, pin.seg.y2, pin.rect)>>
    /\ UNCHANGED <<pin, rngVars, gridVars>>

NextGeom == ApplyClip \/ ApplyHole

SpecGeom == InitGeom /\ [][NextGeom]_vars

\* The parameters a / b of [0,1] with b up to the segment's extent: the set of
\* parameters whose point lies in a rectangle is an interval whose ends are 0,
\* 1 or a quotient by dx or dy, so it is empty only if none of these is in it.
Extent(seg) == Max(1, Max(Abs(seg.x2 - seg.x1), Abs(seg.y2 - seg.y1)))
Params(seg) == {<<a, b>> \in (0 .. Extent(seg)) \X (1 .. Extent(seg)) : a <= b}
PointAt(seg, t) == <<Along(seg.x1, t, seg.x2 - seg.x1), Along(seg.y1, t, seg.y2 - seg.y1)>>
PointInRect(pt, r) == RBetween(pt[1], r.x, r.x + r.w) /\ RBetween(pt[2], r.y, r.y + r.h)
ParamsInRect(seg, r) == {t \in Params(seg) : PointInRect(PointAt(seg, t), r)}
First(ts) == CHOOSE t \in ts : \A u \in ts : RLe(t, u)
Last(ts) == CHOOSE t \in ts : \A u \in ts : RLe(u, t)
SamePoint(a, b) == REq(a[1], b[1]) /\ REq(a[2], b[2])
SegStart(s) == <<RInt(s.x1), RInt(s.y1)>>
SegEnd(s) == <<RInt(s.x2), RInt(s.y2)>>

\* C7: clipLineToRect returns null exactly when the segment has no point in the
\* closed rectangle, and otherwise the part of the segment in the rectangle:
\* the segment itself when both endpoints are inside, and always a sub-segment
\* with both endpoints inside or on the boundary of the rectangle.
C7_ClipLineToRect ==
    pin.fn = "clipLineToRect" /\ pout # <<>> =>
        LET c == pout[1]
            in == ParamsInRect(pin.seg, pin.rect)
        IN  /\ (c = <<>>) <=> (in = {})
            /\ c # <<>> =>
                /\ SamePoint(<<c[1], c[2]>>, PointAt(pin.seg, First(in)))
                /\ SamePoint(<<c[3], c[4]>>, PointAt(pin.seg, Last(in)))
                /\ PointInRect(<<c[1], c[2]>>, pin.rect)
                /\ PointInRect(<<c[3], c[4]>>, pin.rect)
                /\ (PointInRect(SegStart(pin.seg), pin.rect) /\ PointInRect(SegEnd(pin.seg), pin.rect)
                        => SamePoint(<<c[1], c[2]>>, SegStart(pin.seg))
                           /\ SamePoint(<<c[3], c[4]>>, SegEnd(pin.seg)))

\* a segment crossing the rectangle from outside to outside has been cut at
\* both ends
C7_Witness ==
    /\ pin.fn = "clipLineToRect" /\ pout # <<>> /\ pout[1] # <<>>
    /\ pin.seg = [x1 |-> 0, y1 |-> 0, x2 |-> 4, y2 |-> 3]
    /\ pin.rect = [x |-> 1, y |-> 1, w |-> 2, h |-> 1]
    /\ ~SamePoint(<<pout[1][1], pout[1][2]>>, SegStart(pin.seg))
    /\ ~SamePoint(<<pout[1][3], pout[1][4]>>, SegEnd(pin.seg))

\* C8: drawLineWithRectHole draws nothing for a segment with both endpoints
\* inside the hole, and exactly one line, the whole segment, for a segment
\* that has no point in the hole.
C8_HoleClip ==
    pin.fn = "drawLineWithRectHole" /\ pout # <<>> =>
        /\ (PointInRect(SegStart(pin.seg), pin.rect) /\ PointInRect(SegEnd(pin.seg), pin.rect)
                => pout[1] = <<>>)
        /\ (ParamsInRect(pin.seg, pin.rect) = {}
                => pout[1] = <<SegStart(pin.seg) \o SegEnd(pin.seg)>>)

\* a segment passing beside the hole has been drawn whole
C8_Witness ==
    /\ pin.fn = "drawLineWithRectHole" /\ pout # <<>>
    /\ pin.rect = [x |-> 1, y |-> 1, w |-> 2, h |-> 2]
    /\ pin.seg = [x1 |-> 0, y1 |-> 3, x2 |-> 1, y2 |-> 4]
    /\ ParamsInRect(pin.seg, pin.rect) = {}
    /\ pout[1] = <<SegStart(pin.seg) \o SegEnd(pin.seg)>>

\* The parameters a / D of [0,1], D twice the product of the segment's
\* extents: the ends of the parts of a segment inside and outside a rectangle
\* are 0, 1 or quotients by dx or dy, so they and the middles between two of
\* them are among these parameters.
Fine(seg) == 2 * Max(1, Abs(seg.x2 - seg.x1)) * Max(1, Abs(seg.y2 - seg.y1))
FineParams(seg) == {<<a, Fine(seg)>> : a \in 0 .. Fine(seg)}

\* v lies between a and b, whatever their order
RWithin(v, a, b) == (RLe(a, v) /\ RLe(v, b)) \/ (RLe(b, v) /\ RLe(v, a))

\* the point of a segment lies on a line drawn along that segment
OnLine(pt, line) == RWithin(pt[1], line[1], line[3]) /\ RWithin(pt[2], line[2], line[4])

\* strictly inside the rectangle
PointInside(pt, r) ==
    /\ RLt(RInt(r.x), pt[1]) /\ RLt(pt[1], RInt(r.x + r.w))
    /\ RLt(RInt(r.y), pt[2]) /\ RLt(pt[2], RInt(r.y + r.h))

\* the parameters of the segment whose point is on one of the lines drawn
DrawnParams(seg, lines) ==
    {t \in FineParams(seg) : \E k \in 1 .. Len(lines) : OnLine(PointAt(seg, t), lines[k])}

\* C24: drawLineWithRectHole draws the parts of the segment outside the hole
\* and nothing else: no point of a drawn line is strictly inside the hole,
\* and every point of the segment outside the hole is on a drawn line (at
\* the coordinates explored every part outside the hole is longer than the
\* tolerance of 1e-3), also when the segment only touches a corner.
C24_OutsideDrawn ==
    pin.fn = "drawLineWithRectHole" /\ pout # <<>> =>
        \A t \in FineParams(pin.seg) :
            /\ PointInside(PointAt(pin.seg, t), pin.rect) => t \notin DrawnParams(pin.seg, pout[1])
            /\ ~PointInRect(PointAt(pin.seg, t), pin.rect) => t \in DrawnParams(pin.seg, pout[1])

----------------------------------------------------------------------------
(* Events.  An event object carries the fields of normalizeEvent, the      *)
(* severity parseJsonl adds, the prompt and to fields of a raw record (0   *)
(* and "none" when the object has none), the raw field of a normalized     *)
(* event (the prompt and to of the record it was made from) and the two    *)
(* annotations of prepareEvents (0 and FALSE while unset).                 *)

Event(ts, kind, origin, delta, prompt, to) ==
    [ts |-> ts, event |-> kind, origin_mode |-> origin, delta |-> delta,
     flags |-> NoFlags, prompt |-> prompt, to |-> to, severity |-> 0,
     raw |-> [present |-> FALSE, prompt |-> 0, to |-> "none"],
     aiPromptLength |-> 0, hasSnapshotAfter |-> FALSE]

Delta(added, deleted) == [present |-> TRUE, added_chars |-> added, deleted_chars |-> deleted]

\* normalizeEvent: the fields it copies; prompt and to are not among them
\* and stay behind in the raw field
normalizeEvent(raw) ==
    [raw EXCEPT !.prompt = 0, !.to = "none",
                !.raw = [present |-> TRUE, prompt |-> raw.prompt, to |-> raw.to]]

\* normalized.severity = calculateSeverity(normalized)
withSeverity(e) == [e EXCEPT !.severity = calculateSeverity(e)]

\* the character codes of the event kinds
CharCodes ==
    [edit |-> <<101, 100, 105, 116>>,
     session_start |-> <<115, 101, 115, 115, 105, 111, 110, 95, 115, 116, 97, 114, 116>>,
     session_pause |-> <<115, 101, 115, 115, 105, 111, 110, 95, 112, 97, 117, 115, 101>>,
     session_resume |-> <<115, 101, 115, 115, 105, 111, 110, 95, 114, 101, 115, 117, 109, 101>>,
     ai_prompt |-> <<97, 105, 95, 112, 114, 111, 109, 112, 116>>,
     file_open |-> <<102, 105, 108, 101, 95, 111, 112, 101, 110>>,
     snapshot |-> <<115, 110, 97, 112, 115, 104, 111, 116>>,
     mode_change |-> <<109, 111, 100, 101, 95, 99, 104, 97, 110, 103, 101>>,
     policy_violation |-> <<112, 111, 108, 105, 99, 121, 95, 118, 105, 111, 108, 97, 116,
                            105, 111, 110>>]

\* the loop of hashString, hash = hash * 31 + code, over the characters a .. b:
\* the 32-bit word h it leaves from 0, and p = 31 ^ (b - a + 1), so that two
\* halves of a string combine
RECURSIVE hashRange(_, _, _)
hashRange(chars, a, b) ==
    IF a = b THEN [h |-> <<0, chars[a]>>, p |-> <<0, 31>>]
    ELSE CHOOSE both \in
             {[h |-> WAdd(WMul(l.h, r.p), r.h), p |-> WMul(l.p, r.p)] :
                 l \in {hashRange(chars, a, (a + b) \div 2)},
                 r \in {hashRange(chars, (a + b) \div 2 + 1, b)}} : TRUE

\* ... over the first n characters
hashLoop(chars, n) == IF n = 0 THEN <<0, 0>> ELSE hashRange(chars, 1, n).h

\* Math.abs(hash) % 4 for the signed 32-bit hash
hashStringMod4(str) ==
    LET w == hashLoop(CharCodes[str], Len(CharCodes[str]))
    IN  IF w[1] >= 32768 THEN (4 - (w[2] % 4)) % 4 ELSE w[2] % 4

\* getHatchAngle: <<angle>>, or the pair of a policy violation
getHatchAngle(event) ==
    IF event.event = "edit" /\ event.origin_mode = "human" THEN <<45>>
    ELSE IF event.event = "edit" /\ event.origin_mode = "ai" THEN <<135>>
    ELSE IF event.event = "snapshot" THEN <<0>>
    ELSE IF event.event = "mode_change" THEN <<90>>
    ELSE IF event.event = "policy_violation" THEN <<45, 135>>
    ELSE <<(<<0, 45, 90, 135>>)[hashStringMod4(event.event) + 1]>>

----------------------------------------------------------------------------
(* prepareEvents.  Objects are named by their index in the events array:   *)
(* the function returns the array with the annotations it wrote on the     *)
(* objects, and the prepared list as a sequence of indices.                *)

\* the items of xs at the positions in the set at, in their order
pick(xs, at) ==
    [m \in 1 .. Cardinality(at) |->
        xs[CHOOSE k \in at : Cardinality({d \in at : d < k}) = m - 1]]

\* a stable sort of the indices xs by key[i], ascending: an item goes after
\* the items of smaller key and the earlier items of equal key
sortByKey(xs, key) ==
    LET rank(a) == Cardinality({b \in 1 .. Len(xs) :
                                   \/ key[xs[b]] < key[xs[a]]
                                   \/ key[xs[b]] = key[xs[a]] /\ b < a})
    IN  [m \in 1 .. Len(xs) |-> xs[CHOOSE a \in 1 .. Len(xs) : rank(a) = m - 1]]

\* the items of xs that are in keep, in their order
selectSeq(xs, keep) == pick(xs, {k \in 1 .. Len(xs) : xs[k] \in keep})

\* the first loop: sorted[i].hasSnapshotAfter = true
markSnapshots(evs, sorted) ==
    [j \in 1 .. Len(evs) |->
        IF \E i \in 1 .. Len(sorted) - 1 :
               /\ sorted[i] = j
               /\ evs[sorted[i]].event = "edit" /\ evs[sorted[i + 1]].event = "snapshot"
        THEN [evs[j] EXCEPT !.hasSnapshotAfter = TRUE]
        ELSE evs[j]]

\* the second loop over the first n objects in time order:
\* <<the events, currentAiPromptLength>>
RECURSIVE markPrompts(_, _, _)
markPrompts(evs, sorted, n) ==
    IF n = 0 THEN <<evs, 0>>
    ELSE LET before == markPrompts(evs, sorted, n - 1)
             es == before[1]
             cur == before[2]
             evt == es[sorted[n]]
         IN  IF evt.event = "ai_prompt" /\ evt.prompt > 0 THEN <<es, evt.prompt>>
             ELSE IF evt.event = "mode_change" /\ evt.to = "human" THEN <<es, 0>>
             ELSE IF evt.event = "edit" /\ evt.origin_mode = "ai" /\ cur > 0
                  THEN <<[es EXCEPT ![sorted[n]].aiPromptLength = cur], cur>>
             ELSE before

\* the list kept as it is, whatever the kinds
filterNothing(evs, sorted) == sorted

\* sorted.filter(e => e.event === 'edit'), and all of sorted if that is empty
filterEdits(evs, sorted) ==
    LET edits == selectSeq(sorted, {i \in 1 .. Len(evs) : evs[i].event = "edit"})
    IN  IF edits = <<>> THEN sorted ELSE edits

(* IEEE 754 doubles, for the step of the uniform sample.  A double x with  *)
(* 1 <= x < 2^13 is [int, frac]: its integer part and 65 fraction bits as  *)
(* five limbs of 13 bits, most significant first; of the fraction bits     *)
(* only the first 53 - BitLen(int) can be set.                             *)

Mantissa == 53
Limb == 2^13

RECURSIVE BitLen(_)
BitLen(n) == IF n = 0 THEN 0 ELSE 1 + BitLen(n \div 2)

\* the first n fraction limbs of r / m for 0 <= r < m, and the remainder left
RECURSIVE fractionLimbs(_, _, _)
fractionLimbs(r, m, n) ==
    IF n = 0 THEN [limbs |-> <<>>, rem |-> r]
    ELSE LET b == fractionLimbs(r, m, n - 1)
         IN  [limbs |-> Append(b.limbs, (b.rem * Limb) \div m), rem |-> (b.rem * Limb) % m]

\* the limbs k .. 5 times a small integer
RECURSIVE mulLimbs(_, _, _)
mulLimbs(limbs, k, i) ==
    IF k > Len(limbs) THEN [limbs |-> <<>>, carry |-> 0]
    ELSE LET low == mulLimbs(limbs, k + 1, i)
         IN  [limbs |-> <<(limbs[k] * i + low.carry) % Limb>> \o low.limbs,
              carry |-> (limbs[k] * i + low.carry) \div Limb]

\* round to nearest, ties to even: int.limbs, followed by something nonzero
\* when more is TRUE, rounded to 53 significant bits
roundDouble(int, limbs, more) ==
    LET unit == 2^(12 + BitLen(int))        \* the last kept bit, in the two low limbs
        low == limbs[4] * Limb + limbs[5]
        dropped == low % unit
        up == \/ 2 * dropped > unit
              \/ 2 * dropped = unit /\ (more \/ (low \div unit) % 2 = 1)
        low2 == low - dropped + (IF up THEN unit ELSE 0)
        n3 == limbs[3] + low2 \div (Limb * Limb)
        n2 == limbs[2] + n3 \div Limb
        n1 == limbs[1] + n2 \div Limb
    IN  [int |-> int + n1 \div Limb,
         frac |-> <<n1 % Limb, n2 % Limb, n3 % Limb, (low2 \div Limb) % Limb, low2 % Limb>>]

\* a / b in doubles, for integers a >= b > 0
divideDouble(a, b) ==
    LET fl == fractionLimbs(a % b, b, 5)
    IN  roundDouble(a \div b, fl.limbs, fl.rem # 0)

\* i * x in doubles, for an integer i >= 0
timesDouble(i, x) ==
    LET p == mulLimbs(x.frac, 1, i)
    IN  IF i = 0 THEN [int |-> 0, frac |-> <<0, 0, 0, 0, 0>>]
        ELSE roundDouble(i * x.int + p.carry, p.limbs, FALSE)

\* Math.floor(i * step) with step = length / maxEvents
sampleIndex(i, length, maxEvents) == timesDouble(i, divideDouble(length, maxEvents)).int

\* the uniform sample: filtered[Math.floor(i * step)] for i = 0 .. maxEvents - 1
sampleUniform(filtered, maxEvents) ==
    [i \in 1 .. maxEvents |-> filtered[sampleIndex(i - 1, Len(filtered), maxEvents) + 1]]

\* the sampling step: nothing is dropped unless the mode is 'uniform'
sampleEvents(filtered, config) ==
    IF Len(filtered) > config.maxEvents /\ config.sampling = "uniform"
    THEN sampleUniform(filtered, config.maxEvents)
    ELSE filtered

typeOrder == <<"edit", "snapshot", "mode_change", "policy_violation", "session_start",
               "session_pause", "session_resume">>

\* typeOrder.indexOf(kind)
indexOfType(kind) ==
    IF \E i \in 1 .. Len(typeOrder) : typeOrder[i] = kind
    THEN (CHOOSE i \in 1 .. Len(typeOrder) : typeOrder[i] = kind) - 1
    ELSE -1

\* the final sort of the prepared list
orderEvents(evs, filtered, order) ==
    LET maxTs == 1 + Max(0, IF evs = <<>> THEN 0
                            ELSE evs[CHOOSE i \in 1 .. Len(evs) :
                                         \A j \in 1 .. Len(evs) : evs[j].ts <= evs[i].ts].ts)
    IN  CASE order = "time" -> sortByKey(filtered, [i \in 1 .. Len(evs) |-> evs[i].ts])
          [] order = "severity" ->
                sortByKey(filtered, [i \in 1 .. Len(evs) |-> -evs[i].severity])
          [] order = "type_blocks" ->
                sortByKey(filtered, [i \in 1 .. Len(evs) |->
                                        indexOfType(evs[i].event) * maxTs + evs[i].ts])
          [] OTHER -> filtered

prepareEvents(evs, config) ==
    LET sorted == sortByKey([i \in 1 .. Len(evs) |-> i], [i \in 1 .. Len(evs) |-> evs[i].ts])
        marked == markPrompts(markSnapshots(evs, sorted), sorted, Len(sorted))[1]
        filtered == filterEdits(marked, sorted)
        sampled == sampleEvents(filtered, config)
    IN  [events |-> marked, prepared |-> orderEvents(marked, sampled, config.order)]

----------------------------------------------------------------------------
(* The cell renderer.  A drawing-surface call is a record of the method's  *)
(* name and its numeric arguments: pixels, stroke weights and spacings in  *)
(* ten-thousandths, ratios in thousandths.  The g.line calls of one        *)
(* drawHatchLines call are a function of its arguments alone (it draws no  *)
(* random number and reads no other state) and are recorded as one         *)
(* "hatchLines" entry holding those arguments.                             *)

call(fn, args) == [fn |-> fn, args |-> args]

\* drawHatchLines with scale = 1
drawHatchLines(cellX, cellY, cellW, cellH, angleDeg, spacing, weight, alpha, eraseRatio) ==
    <<call("stroke", <<0, alpha>>),
      call("strokeWeight", <<Max(5000, weight)>>),
      call("hatchLines", <<cellX, cellY, cellW, cellH, angleDeg, spacing, eraseRatio>>)>>

drawPolicyViolationCell(cellX, cellY, cellW, cellH, severity) ==
    LET params == getHatchParams(severity)
        weight == policyViolationWeight(severity)
    IN  <<call("noStroke", <<>>), call("fill", <<255, 0, 0, 20>>),
          call("rect", <<cellX, cellY, cellW, cellH>>)>>
        \o drawHatchLines(cellX, cellY, cellW, cellH, 45, params.spacing, weight, params.alpha, 0)
        \o drawHatchLines(cellX, cellY, cellW, cellH, 135, params.spacing, weight, params.alpha, 0)

\* Math.cos and Math.sin in ten-thousandths, taken at the multiple of pi/4
\* at or below the angle: the octant of u * 2 * pi is the top three bits of u
octant(u) == u.frac[1] \div 8192
cosTable == <<10000, 7071, 0, -7071, -10000, -7071, 0, 7071>>
sinTable == <<0, 7071, 10000, 7071, 0, -7071, -10000, -7071>>

\* the far end of the ray from the centre, clipped to the cell; lengths are
\* taken to the pixel
getRayBoundaryIntersection(centerX, centerY, u, cellX, cellY, cellW, cellH) ==
    LET maxDist == FloorSqrt(cellW * cellW + cellH * cellH)
        x2 == centerX + (cosTable[octant(u) + 1] * maxDist) \div TenK
        y2 == centerY + (sinTable[octant(u) + 1] * maxDist) \div TenK
        clipped == clipLineToRect(centerX, centerY, x2, y2, cellX, cellY, cellW, cellH)
    IN  IF clipped = <<>> THEN <<>>
        ELSE <<[x |-> clipped[3][1] \div clipped[3][2], y |-> clipped[4][1] \div clipped[4][2]]>>

\* this.seed after k draws: k additions of 0x6D2B79F5
seedAfter(s, k) ==
    LET l == s.w[2] + k * IncLo
        h == s.w[1] + k * IncHi + (l \div Half)
    IN  [ovf |-> s.ovf + (h \div Half), w |-> <<h % Half, l % Half>>]

\* collectBoundaryPoints: the points and the generator after count draws,
\* the i-th ray taking the i-th draw; a ray without intersection adds nothing
collectBoundaryPoints(cellX, cellY, cellW, cellH, count, rng) ==
    CHOOSE collected \in
        {[points |-> [m \in 1 .. Cardinality({i \in 1 .. count : rays[i] # <<>>}) |->
                         pick(rays, {i \in 1 .. count : rays[i] # <<>>})[m][1]],
          rng |-> seedAfter(rng, count)] :
            rays \in {<<>> \o [i \in 1 .. count |->
                         getRayBoundaryIntersection(cellX + cellW \div 2, cellY + cellH \div 2,
                                                    RngNext(seedAfter(rng, i - 1))[2],
                                                    cellX, cellY, cellW, cellH)]}} : TRUE

\* the border of a cell: heavier and darker on an edit carrying aiPromptLength
cellBorder(event, cellX, cellY, cellW, cellH) ==
    LET promptRatio == clamp((log1p(event.aiPromptLength) * Milli) \div log1p(1000), 0, Milli)
        emphasised == event.aiPromptLength > 0
        borderWeight == IF emphasised THEN Max(2 * TenK, lerp(3 * TenK, 10 * TenK, promptRatio))
                        ELSE Max(5000, hatching.cellBorderWeight)
        borderAlpha == IF emphasised THEN round(lerp(150 * TenK, 255 * TenK, promptRatio))
                       ELSE hatching.cellBorderAlpha
    IN  <<call("stroke", <<0, borderAlpha>>), call("strokeWeight", <<borderWeight>>),
          call("noFill", <<>>), call("rect", <<cellX, cellY, cellW, cellH>>)>>

\* clamp(Math.log1p(deleted) / Math.log1p(3000), 0, 1) * 0.8, in thousandths
eraseRatioOf(event) ==
    IF event.delta.present /\ event.delta.deleted_chars > 0
    THEN (clamp((log1p(event.delta.deleted_chars) * Milli) \div log1p(3000), 0, Milli) * 8) \div 10
    ELSE 0

\* clamp(Math.round(Math.log1p(totalChange) / 1.6), 0, radialLinesMaxCount)
pointCount(totalChange) == clamp((log1p(totalChange) + 800) \div 1600, 0, 12)

\* drawCell with collectPoints = true.  idx names the event object, 0 is
\* null: reading event.aiPromptLength for console.log then throws a
\* TypeError before the first call on the surface.
drawCell(evs, idx, cellX, cellY, cellW, cellH, rng) ==
    IF idx = 0 THEN [thrown |-> TRUE, calls |-> <<>>, points |-> <<>>, rng |-> rng]
    ELSE
      LET event == evs[idx]
          border == cellBorder(event, cellX, cellY, cellW, cellH)
          params == getHatchParams(event.severity)
          hatch == drawHatchLines(cellX, cellY, cellW, cellH, getHatchAngle(event)[1],
                                  params.spacing, params.weight, params.alpha,
                                  eraseRatioOf(event))
          totalChange == event.delta.added_chars + event.delta.deleted_chars
          collected == IF /\ event.event = "edit" /\ event.delta.present
                          /\ totalChange > 0 /\ pointCount(totalChange) > 0
                       THEN collectBoundaryPoints(cellX, cellY, cellW, cellH,
                                                  pointCount(totalChange), rng)
                       ELSE [points |-> <<>>, rng |-> rng]
      IN  IF event.event = "policy_violation"
          THEN [thrown |-> FALSE,
                calls |-> border \o drawPolicyViolationCell(cellX, cellY, cellW, cellH,
                                                            event.severity),
                points |-> <<>>, rng |-> rng]
          ELSE [thrown |-> FALSE, calls |-> border \o hatch,
                points |-> collected.points, rng |-> collected.rng]

\* drawPoints with scale = 1
ellipses(points, size) ==
    [k \in 1 .. Len(points) |-> call("ellipse", <<points[k].x, points[k].y, size, size>>)]

drawPoints(points, size, alpha) ==
    <<call("fill", <<0, alpha>>), call("noStroke", <<>>)>> \o ellipses(points, Max(2, size))

\* the squared distance: Math.sqrt keeps its order
dist2(a, b) == (a.x - b.x) * (a.x - b.x) + (a.y - b.y) * (a.y - b.y)

\* the nearest to point i of the candidates; of equally near ones the first
\* in the list, as the stable sort of the distances leaves them
nearestOf(points, i, candidates) ==
    CHOOSE j \in candidates :
        \A k \in candidates :
            \/ dist2(points[j], points[i]) < dist2(points[k], points[i])
            \/ dist2(points[j], points[i]) = dist2(points[k], points[i]) /\ j <= k

\* the two nearest other points of point i, nearest first
nearest(points, i) ==
    LET others == (1 .. Len(points)) \ {i}
        j1 == nearestOf(points, i, others)
    IN  IF others = {} THEN <<>>
        ELSE IF others = {j1} THEN <<j1>>
        ELSE <<j1, nearestOf(points, i, others \ {j1})>>

\* the k-th turn of the inner loop, over the neighbours of all points in
\* order: turns 2i - 1 and 2i are the first and second neighbour of point i
\* (a neighbour a short list does not have gives no turn)
turns(points, n) ==
    {k \in 1 .. 2 * n : Len(nearest(points, (k + 1) \div 2)) >= 2 - (k % 2)}

\* the edge of turn k as <<current point, neighbour>>
turnEdge(points, k) ==
    <<(k + 1) \div 2, nearest(points, (k + 1) \div 2)[2 - (k % 2)]>>

\* edgeKey: the two indices, smaller first
edgeKey(e) == <<Min(e[1], e[2]), Max(e[1], e[2])>>

\* every turn draws, the drawn set is not looked at
connectEdgeAgain(points, n, k) == TRUE

\* !drawn.has(edgeKey): no earlier turn had the same edge
connectEdge(points, n, k) ==
    ~\E earlier \in turns(points, n) :
        earlier < k /\ edgeKey(turnEdge(points, earlier)) = edgeKey(turnEdge(points, k))

\* the outer loop of connectNearestNeighbor over the points 1 .. n: the
\* drawn set it builds and its line calls
connectLoop(points, n) ==
    LET drawing == {k \in turns(points, n) : connectEdge(points, n, k)}
        edgeAt == [k \in 1 .. 2 * n |->
                      IF k \in drawing THEN turnEdge(points, k) ELSE <<0, 0>>]
    IN  [drawn |-> {edgeKey(turnEdge(points, k)) : k \in turns(points, n)},
         lines |-> [m \in 1 .. Cardinality(drawing) |->
                       LET e == pick(edgeAt, drawing)[m]
                       IN  call("line", <<points[e[1]].x, points[e[1]].y,
                                          points[e[2]].x, points[e[2]].y>>)]]

\* connectNearestNeighbor with scale = 1; weight in ten-thousandths
connectNearestNeighbor(points, weight, alpha) ==
    IF Len(points) < 2 THEN <<>>
    ELSE <<call("stroke", <<0, alpha>>), call("strokeWeight", <<Max(5000, weight)>>)>>
         \o connectLoop(points, Len(points)).lines

----------------------------------------------------------------------------
(* drawLeWittGrid, called again and again on one array of event objects    *)
(* with one configuration.  A call runs to its end before the next starts; *)
(* the clock moves between calls.                                          *)

NumPasses == 2      \* calls of drawLeWittGrid in a behaviour
MaxClock == 1       \* clock ticks in a behaviour
MaxSlice == 7       \* events handed to drawLeWittGrid

Canvas == [width |-> 800, height |-> 800]

\* a session log, one record out of time order
RawLog ==
    <<Event(10, "session_start", "human", NoDelta, 0, "none"),
      Event(20, "ai_prompt", "ai", NoDelta, 40, "none"),
      Event(30, "edit", "ai", Delta(40, 0), 0, "none"),
      Event(50, "edit", "human", Delta(1, 1), 0, "none"),
      Event(40, "edit", "ai", Delta(0, 0), 0, "none"),
      Event(60, "snapshot", "human", NoDelta, 0, "none"),
      Event(70, "edit", "human", Delta(3000, 40), 0, "none"),
      Event(80, "mode_change", "human", NoDelta, 0, "human"),
      Event(90, "edit", "ai", Delta(40, 1), 0, "none"),
      Event(100, "policy_violation", "ai", NoDelta, 0, "none")>>

\* the events of records i .. j: as parseJsonl returns them when keepRaw is
\* FALSE, with the prompt and to fields of the records kept when it is TRUE
EventsOf(i, j, keepRaw) ==
    [k \in 1 .. (j - i + 1) |->
        withSeverity(IF keepRaw THEN RawLog[i + k - 1] ELSE normalizeEvent(RawLog[i + k - 1]))]

EventArrays ==
    {EventsOf(i, j, keepRaw) : i \in 1 .. Len(RawLog),
                               j \in 0 .. Len(RawLog), keepRaw \in BOOLEAN}

RenderConfigs ==
    LET sized(min, max) == [LEWITT_CONFIG EXCEPT !.minGridSize = min, !.maxGridSize = max]
        shapes == {LEWITT_CONFIG, sized(1, 1), sized(1, 2), sized(2, 2),
                   [sized(1, 2) EXCEPT !.order = "severity"],
                   [sized(1, 2) EXCEPT !.order = "type_blocks"],
                   [sized(1, 2) EXCEPT !.maxEvents = 3]}
    IN  {[c EXCEPT !.seed = s] : c \in shapes, s \in {0, 12345}}

InitGrid ==
    /\ events \in {a \in EventArrays : Len(a) <= MaxSlice}
    /\ renderConfig \in RenderConfigs
    /\ now = 0
    /\ run = IdleRun
    /\ passes = <<>>
    /\ instructions = <<>>
    /\ PageIdle
    /\ RngIdle
    /\ PureIdle

\* Date.now(): milliseconds since the epoch, above 2^32
DateNow(t) == Seed(400, 0, 777 + t)

\* the seed read from the clock whatever the configuration says
seedFromClock(cfg, t) == DateNow(t)

\* const seed = config.seed || Date.now()
seedOf(cfg, t) ==
    IF cfg.seed # 0 THEN Seed(0, cfg.seed \div Half, cfg.seed % Half) ELSE DateNow(t)

\* time passes between two calls
Tick ==
    /\ run.pc # "cells"
    /\ now < MaxClock
    /\ now' = now + 1
    /\ UNCHANGED <<events, renderConfig, run, passes, instructions, pageVars,
                 rngVars, pureVars>>

\* the set-up with allBoundaryPoints kept from the call before
passStartKeepPoints(cfg) ==
    LET prep == prepareEvents(events, cfg)
    IN  [events |-> prep.events,
         run |-> [pc |-> "cells",
                  seed |-> seedOf(cfg, now),
                  rng |-> seedOf(cfg, now),
                  prepared |-> prep.prepared,
                  gridSize |-> calculateGridSize(Len(prep.prepared), cfg),
                  row |-> 0, colIdx |-> 0, eventIdx |-> 0,
                  points |-> run.points, visited |-> <<>>, given |-> <<>>,
                  calls |-> <<call("strokeCap", <<>>), call("noFill", <<>>)>>]]

\* drawLeWittGrid up to its loop, called with the configuration cfg: seed,
\* generator, prepareEvents (which writes on the event objects), grid size,
\* surface set-up.  The event objects and the locals it leaves.
passStart(cfg) ==
    LET prep == prepareEvents(events, cfg)
    IN  [events |-> prep.events,
         run |-> [pc |-> "cells",
                  seed |-> seedOf(cfg, now),
                  rng |-> seedOf(cfg, now),
                  prepared |-> prep.prepared,
                  gridSize |-> calculateGridSize(Len(prep.prepared), cfg),
                  row |-> 0, colIdx |-> 0, eventIdx |-> 0,
                  points |-> <<>>, visited |-> <<>>, given |-> <<>>,
                  calls |-> <<call("strokeCap", <<>>), call("noFill", <<>>)>>]]

\* a call of drawLeWittGrid with the configuration of the behaviour
StartPass ==
    /\ run.pc # "cells"
    /\ Len(passes) < NumPasses
    /\ events' = passStart(renderConfig).events
    /\ run' = passStart(renderConfig).run
    /\ UNCHANGED <<renderConfig, now, passes, instructions, pageVars,
                 rngVars, pureVars>>

\* what a call leaves behind when it ends
PassRecord(r, outcome) ==
    [outcome |-> outcome, seed |-> r.seed, gridSize |-> r.gridSize,
     eventCount |-> Len(r.prepared), prepared |-> r.prepared,
     boundaryPointCount |-> Len(r.points), visited |-> r.visited, given |-> r.given,
     calls |-> r.calls]

\* one turn of the inner loop: the cell's position, its event or null,
\* drawCell, the points, eventIdx++; an exception of drawCell ends the call
DrawCellStep ==
    /\ run.pc = "cells"
    /\ run.row < run.gridSize
    /\ LET margin == (Canvas.width * renderConfig.marginRatio) \div 100
           cellW == (Canvas.width - 2 * margin) \div run.gridSize
           cellH == (Canvas.height - 2 * margin) \div run.gridSize
           col == IF run.row % 2 = 0 THEN run.colIdx ELSE run.gridSize - 1 - run.colIdx
           event == IF run.eventIdx < Len(run.prepared)
                    THEN run.prepared[run.eventIdx + 1] ELSE 0
           cell == drawCell(events, event, margin + col * cellW, margin + run.row * cellH,
                            cellW, cellH, run.rng)
           lastCol == run.colIdx + 1 = run.gridSize
           reached == [run EXCEPT !.visited = Append(@, <<run.row, col>>),
                                  !.given = Append(@, event)]
       IN  IF cell.thrown
           THEN /\ run' = [reached EXCEPT !.pc = "thrown"]
                /\ passes' = Append(passes, PassRecord(reached, "thrown"))
           ELSE /\ run' = [reached EXCEPT !.calls = @ \o cell.calls,
                                          !.points = @ \o cell.points,
                                          !.rng = cell.rng,
                                          !.eventIdx = @ + 1,
                                          !.colIdx = IF lastCol THEN 0 ELSE @ + 1,
                                          !.row = IF lastCol THEN @ + 1 ELSE @]
                /\ passes' = passes
    /\ UNCHANGED <<events, renderConfig, now, instructions, pageVars,
                 rngVars, pureVars>>

\* after the loop: the points, their connections, the returned summary
FinishPass ==
    /\ run.pc = "cells"
    /\ run.row = run.gridSize
    /\ LET after == IF Len(run.points) > 0
                    THEN drawPoints(run.points, 4, 200)
                         \o connectNearestNeighbor(run.points, 12000, 150)
                    ELSE <<>>
           ended == [run EXCEPT !.pc = "done", !.calls = @ \o after]
       IN  /\ run' = ended
           /\ passes' = Append(passes, PassRecord(ended, "done"))
    /\ UNCHANGED <<events, renderConfig, now, instructions, pageVars,
                 rngVars, pureVars>>

Next == Tick \/ StartPass \/ DrawCellStep \/ FinishPass

Spec == InitGrid /\ [][Next]_vars

\* the calls that ended
Ended == 1 .. Len(passes)

\* C1: with a nonzero configured seed, any two drawLeWittGrid calls on the
\* same events and configuration end the same way having issued the same
\* ordered list of drawing-surface calls with the same arguments.
C1_SameSeedSameCalls ==
    renderConfig.seed # 0 =>
        \A p, q \in Ended : /\ passes[p].outcome = passes[q].outcome
                            /\ passes[p].calls = passes[q].calls

\* two completed calls that drew cells, points and connections, the clock
\* having moved
C1_Witness ==
    /\ renderConfig.seed # 0 /\ now > 0
    /\ Len(passes) = 2
    /\ \A p \in Ended : passes[p].outcome = "done" /\ passes[p].boundaryPointCount >= 2
    /\ \E k \in 1 .. Len(passes[1].calls) : passes[1].calls[k].fn = "line"
    /\ passes[1].calls = passes[2].calls

\* the calls of n * n bordered cells and nothing else after the set-up
BorderOnly(calls, n) ==
    /\ Len(calls) = 2 + 4 * n * n
    /\ \A k \in 1 .. n * n :
          /\ calls[4 * k - 1].fn = "stroke"
          /\ calls[4 * k].fn = "strokeWeight"
          /\ calls[4 * k + 1].fn = "noFill"
          /\ calls[4 * k + 2].fn = "rect"

\* C2: a drawLeWittGrid call with an empty event set completes without an
\* error, with grid size minGridSize and minGridSize * minGridSize cells,
\* each drawn as its border and nothing else.
C2_EmptyEventSet ==
    events = <<>> =>
        \A p \in Ended : /\ passes[p].outcome = "done"
                         /\ passes[p].gridSize = renderConfig.minGridSize
                         /\ Len(passes[p].visited) = passes[p].gridSize * passes[p].gridSize
                         /\ BorderOnly(passes[p].calls, passes[p].gridSize)

\* the serpentine order of the positions of an n by n grid
Serpentine(n) ==
    [k \in 1 .. n * n |->
        LET r == (k - 1) \div n
            c == (k - 1) % n
        IN  <<r, IF r % 2 = 0 THEN c ELSE n - 1 - c>>]

\* C4: for the computed grid size n a drawLeWittGrid call visits exactly
\* n * n positions, each once, rows increasing, the columns of a row
\* increasing when the row is even and decreasing when it is odd.
C4_Boustrophedon ==
    \A p \in Ended : passes[p].visited = Serpentine(passes[p].gridSize)

\* C21: prepareEvents leaves the input array and every event object in it
\* as they were: no step changes the events handed to drawLeWittGrid, the
\* hasSnapshotAfter and aiPromptLength annotations included.
C21_InputUnchanged == [][events' = events]_vars

\* the positions in a call list of the calls of the given methods
CallsOf(calls, fns) == {k \in 1 .. Len(calls) : calls[k].fn \in fns}

\* C22: in a drawLeWittGrid pass no marker and no connection line is drawn
\* while cells are being drawn; once one is drawn all n * n cells have been
\* drawn, every cell call comes before every marker and every marker before
\* every connection line; the boundary points of a pass start empty and the
\* markers of a pass are the points collected in it.
C22_CellsMarkersLines ==
    LET late == CallsOf(run.calls, {"ellipse", "line"})
    IN  /\ run.pc # "done" => late = {}
        /\ (run.pc = "cells" /\ run.visited = <<>>) => run.points = <<>>
        /\ late # {} =>
              /\ Len(run.visited) = run.gridSize * run.gridSize
              /\ \A c \in CallsOf(run.calls, {"rect", "hatchLines"}) :
                     \A m \in CallsOf(run.calls, {"ellipse"}) : c < m
              /\ \A m \in CallsOf(run.calls, {"ellipse"}) :
                     \A l \in CallsOf(run.calls, {"line"}) : m < l
              /\ Cardinality(CallsOf(run.calls, {"ellipse"})) = Len(run.points)
        /\ \A p \in Ended :
               passes[p].outcome = "done" =>
                   Cardinality(CallsOf(passes[p].calls, {"ellipse"}))
                       = passes[p].boundaryPointCount

\* a second pass over four cells that ended with markers and connection
\* lines, after a first one that had collected points too
C22_Witness ==
    /\ Len(passes) = 2 /\ run.pc = "done" /\ run.gridSize = 2
    /\ passes[1].boundaryPointCount >= 2
    /\ Cardinality(CallsOf(run.calls, {"ellipse"})) >= 2
    /\ CallsOf(run.calls, {"line"}) # {}
    /\ Cardinality(CallsOf(run.calls, {"rect"})) = 4

\* C18: the k-th position of a drawLeWittGrid pass (k from 0) is drawn with
\* the k-th prepared event while k is below the number of prepared events
\* and with null after that, and the pass visits all n * n positions.
C18_EventPerPosition ==
    \A p \in Ended :
        /\ Len(passes[p].given) = passes[p].gridSize * passes[p].gridSize
        /\ \A k \in 1 .. Len(passes[p].given) :
               passes[p].given[k] = IF k <= passes[p].eventCount
                                    THEN passes[p].prepared[k] ELSE 0

\* the cells of an ended pass that were drawn with an event
cellsWithEvent(p) == {c \in 1 .. Len(passes[p].given) : passes[p].given[c] # 0}

\* C25: in a pass that returns, the n * n cells are at least as many as the
\* prepared events, every prepared event is the event of exactly one cell,
\* and the returned eventCount is the number of cells drawn with an event.
C25_EveryEventDrawn ==
    \A p \in Ended :
        passes[p].outcome = "done" =>
            /\ passes[p].gridSize * passes[p].gridSize >= passes[p].eventCount
            /\ \A k \in 1 .. passes[p].eventCount :
                   Cardinality({c \in cellsWithEvent(p) :
                                   passes[p].given[c] = passes[p].prepared[k]}) = 1
            /\ passes[p].eventCount = Cardinality(cellsWithEvent(p))

----------------------------------------------------------------------------
(* parseJsonl.  The text is a sequence of lines; a line is blank (empty or *)
(* white space), the JSON of a record of RawLog with or without a          *)
(* session_id, the JSON literal null, or text that is no JSON.             *)

MaxLines == 4       \* lines of a text

Line(text, raw, session_id) == [text |-> text, raw |-> raw, session_id |-> session_id]

LineSet ==
    {Line("blank", 0, ""), Line("garbage", 0, ""), Line("null", 0, ""),
     Line("json", 2, ""), Line("json", 3, "s1"), Line("json", 9, "s2")}

Texts == UNION {[1 .. n -> LineSet] : n \in 0 .. MaxLines}

\* jsonlText.trim(): the blank lines at both ends go, with their line breaks
RECURSIVE trimStart(_)
trimStart(lines) ==
    IF lines # <<>> /\ lines[1].text = "blank" THEN trimStart(Tail(lines)) ELSE lines

RECURSIVE trimEnd(_)
trimEnd(lines) ==
    IF lines # <<>> /\ lines[Len(lines)].text = "blank"
    THEN trimEnd(SubSeq(lines, 1, Len(lines) - 1)) ELSE lines

\* jsonlText.trim().split('\n'): an empty text splits into one empty line
splitLines(lines) ==
    IF trimEnd(trimStart(lines)) = <<>> THEN <<Line("blank", 0, "")>>
    ELSE trimEnd(trimStart(lines))

\* the loop of parseJsonl over the first n lines
RECURSIVE parseLoop(_, _)
parseLoop(lines, n) ==
    IF n = 0 THEN [events |-> <<>>, warnings |-> <<>>, sessionId |-> ""]
    ELSE LET before == parseLoop(lines, n - 1)
             line == lines[n]
         IN  CASE line.text = "blank" -> before
               [] line.text = "json" ->
                    [events |-> Append(before.events,
                                       withSeverity(normalizeEvent(RawLog[line.raw]))),
                     warnings |-> before.warnings,
                     sessionId |-> IF before.sessionId = "" /\ line.session_id # ""
                                   THEN line.session_id ELSE before.sessionId]
               [] line.text = "null" ->
                    \* normalizeEvent(null) throws reading raw.ts
                    [before EXCEPT !.warnings = Append(@, [line |-> n, error |-> "TypeError"])]
               [] OTHER ->
                    \* JSON.parse throws
                    [before EXCEPT !.warnings = Append(@, [line |-> n, error |-> "SyntaxError"])]

parseJsonl(jsonlText) == parseLoop(splitLines(jsonlText), Len(splitLines(jsonlText)))

InitParse ==
    /\ pin \in [fn : {"parseJsonl"}, jsonlText : Texts]
    /\ pout = <<>>
    /\ RngIdle
    /\ GridIdle

ApplyParse ==
    /\ pin.fn = "parseJsonl" /\ pout = <<>>
    /\ pout' = <<parseJsonl(pin.jsonlText)>>
    /\ UNCHANGED <<pin, rngVars, gridVars>>

SpecParse == InitParse /\ [][ApplyParse]_vars

\* the numbers, in the input, of its lines of the given kinds, in order
LinesOf(text, kinds) ==
    selectSeq([i \in 1 .. Len(text) |-> i], {i \in 1 .. Len(text) : text[i].text \in kinds})

\* C11: every non-blank line gives exactly one normalized event, in line
\* order, or exactly one warning carrying the 1-based number of that line in
\* the input; lines after a malformed line are still processed.
C11_ParseRecovers ==
    pout # <<>> =>
        LET good == LinesOf(pin.jsonlText, {"json"})
            bad == LinesOf(pin.jsonlText, {"garbage", "null"})
        IN  /\ Len(pout[1].events) = Len(good)
            /\ \A k \in 1 .. Len(good) :
                  pout[1].events[k] =
                      withSeverity(normalizeEvent(RawLog[pin.jsonlText[good[k]].raw]))
            /\ Len(pout[1].warnings) = Len(bad)
            /\ \A k \in 1 .. Len(bad) : pout[1].warnings[k].line = bad[k]

----------------------------------------------------------------------------
(* The sampling step of prepareEvents on a time-ordered filtered list,     *)
(* whose items are named by their index from 0.                            *)

MaxFiltered == 31   \* items of a filtered list

SampleConfigs ==
    {LEWITT_CONFIG} \cup
    {[LEWITT_CONFIG EXCEPT !.maxEvents = m, !.sampling = mode] :
        m \in {3, 7, 22}, mode \in {"uniform", "weighted"}}

InitSample ==
    /\ pin \in [fn : {"sampleEvents"}, length : (0 .. MaxFiltered) \cup {720},
                config : SampleConfigs]
    /\ pout = <<>>
    /\ RngIdle
    /\ GridIdle

ApplySample ==
    /\ pin.fn = "sampleEvents" /\ pout = <<>>
    /\ pout' = <<sampleEvents([k \in 1 .. pin.length |-> k - 1], pin.config)>>
    /\ UNCHANGED <<pin, rngVars, gridVars>>

SpecSample == InitSample /\ [][ApplySample]_vars

\* C12: whatever the configuration, more than maxEvents filtered events are
\* cut to exactly maxEvents, those at the indices floor(i * length /
\* maxEvents) for i = 0 .. maxEvents - 1, distinct, increasing and starting
\* at 0; no more than maxEvents events are ever returned.
C12_UniformSample ==
    pout # <<>> /\ pin.length > pin.config.maxEvents =>
        /\ Len(pout[1]) = pin.config.maxEvents
        /\ \A i \in 0 .. pin.config.maxEvents - 1 :
              pout[1][i + 1] = (i * pin.length) \div pin.config.maxEvents
        /\ pout[1][1] = 0
        /\ \A i \in 1 .. Len(pout[1]) - 1 : pout[1][i] < pout[1][i + 1]

----------------------------------------------------------------------------
(* prepareEvents as drawLeWittGrid calls it: run.prepared is its result on *)
(* the events of the pass.                                                 *)

\* the event objects prepareEvents returned, in order
Prepared == [k \in 1 .. Len(run.prepared) |-> events[run.prepared[k]]]

HasEdit == \E i \in 1 .. Len(events) : events[i].event = "edit"

\* C13: with at least one edit in the input every returned event is an
\* edit; with no edit in the input no event is dropped for its kind (all
\* are returned when they are no more than maxEvents).
C13_EditsOnly ==
    run.pc # "idle" =>
        IF HasEdit
        THEN \A k \in 1 .. Len(Prepared) : Prepared[k].event = "edit"
        ELSE Len(events) <= renderConfig.maxEvents =>
                 /\ Len(run.prepared) = Len(events)
                 /\ {run.prepared[k] : k \in 1 .. Len(run.prepared)} = 1 .. Len(events)

\* a prepared list of several edits out of an input that also holds a
\* snapshot and a mode_change
C13_Witness ==
    /\ run.pc # "idle"
    /\ \E i, j \in 1 .. Len(events) :
          events[i].event = "snapshot" /\ events[j].event = "mode_change"
    /\ Len(Prepared) >= 3
    /\ \A k \in 1 .. Len(Prepared) : Prepared[k].event = "edit"

\* the events are normalized events, as parseJsonl returns them
FromParseJsonl == \A i \in 1 .. Len(events) : events[i].raw.present

\* event a comes before event b in ts order (equal ts: in array order)
Before(a, b) == events[a].ts < events[b].ts \/ (events[a].ts = events[b].ts /\ a < b)

\* record p is an ai_prompt with a non-empty prompt that is, at event e, the
\* latest one and not reset by a mode_change to human
ActivePrompt(p, e) ==
    /\ Before(p, e)
    /\ events[p].event = "ai_prompt" /\ events[p].raw.prompt > 0
    /\ \A m \in 1 .. Len(events) :
          Before(p, m) /\ Before(m, e) =>
              /\ ~(events[m].event = "ai_prompt" /\ events[m].raw.prompt > 0)
              /\ ~(events[m].event = "mode_change" /\ events[m].raw.to = "human")

\* C14: for records read by parseJsonl and prepared by prepareEvents, every
\* AI edit that follows, in ts order, an ai_prompt record with a non-empty
\* prompt with no mode_change to human in between carries aiPromptLength
\* equal to the length of the latest such prompt; an AI edit with no such
\* prompt carries none.
C14_PromptLength ==
    FromParseJsonl /\ run.pc # "idle" =>
        \A e \in 1 .. Len(events) :
            events[e].event = "edit" /\ events[e].origin_mode = "ai" =>
                /\ \A p \in 1 .. Len(events) :
                      ActivePrompt(p, e) => events[e].aiPromptLength = events[p].raw.prompt
                /\ (~\E p \in 1 .. Len(events) : ActivePrompt(p, e)) =>
                      events[e].aiPromptLength = 0

----------------------------------------------------------------------------
(* connectNearestNeighbor on a list of points *)

MaxPoints == 4      \* points in a list

PointSet == {[x |-> x, y |-> y] : x \in {0, 1, 3}, y \in {0, 2}}

PointLists == UNION {[1 .. n -> PointSet] : n \in 0 .. MaxPoints}

InitConnect ==
    /\ pin \in [fn : {"connectNearestNeighbor"}, points : PointLists]
    /\ pout = <<>>
    /\ RngIdle
    /\ GridIdle

\* the calls on g, and the drawn set as the function leaves it
ApplyConnect ==
    /\ pin.fn = "connectNearestNeighbor" /\ pout = <<>>
    /\ pout' = <<[calls |-> connectNearestNeighbor(pin.points, 12000, 150),
                  drawn |-> IF Len(pin.points) < 2 THEN {}
                            ELSE connectLoop(pin.points, Len(pin.points)).drawn]>>
    /\ UNCHANGED <<pin, rngVars, gridVars>>

SpecConnect == InitConnect /\ [][ApplyConnect]_vars

\* the line calls among the calls
LineCalls(calls) == selectSeq([k \in 1 .. Len(calls) |-> k],
                              {k \in 1 .. Len(calls) : calls[k].fn = "line"})

\* a line call joins the points i and j, in one direction or the other
Joins(c, pts, i, j) ==
    \/ c.args = <<pts[i].x, pts[i].y, pts[j].x, pts[j].y>>
    \/ c.args = <<pts[j].x, pts[j].y, pts[i].x, pts[i].y>>

\* j and k are two nearest other points of point i: no other point is
\* nearer to i than either
TwoNearest(pts, i, j, k) ==
    /\ j # i /\ k # i /\ j # k
    /\ \A o \in (1 .. Len(pts)) \ {i, j, k} :
          /\ dist2(pts[o], pts[i]) >= dist2(pts[j], pts[i])
          /\ dist2(pts[o], pts[i]) >= dist2(pts[k], pts[i])

Edge(i, j) == <<Min(i, j), Max(i, j)>>

\* C15: every point is joined to its two nearest other points (to the other
\* point when there are two), every unordered pair is drawn at most once,
\* no point is joined to itself, and fewer than two points give no line.
C15_NearestNeighbor ==
    pout # <<>> =>
        LET pts == pin.points
            n == Len(pts)
            calls == pout[1].calls
            drawn == pout[1].drawn
            lines == LineCalls(calls)
        IN  /\ n < 2 => calls = <<>>
            /\ n = 2 => drawn = {<<1, 2>>}
            /\ n >= 3 => \A i \in 1 .. n : \E j, k \in 1 .. n :
                            /\ TwoNearest(pts, i, j, k)
                            /\ Edge(i, j) \in drawn /\ Edge(i, k) \in drawn
            /\ \A e \in drawn : e[1] # e[2]
            /\ Len(lines) = Cardinality(drawn)
            /\ \A e \in drawn : \E k \in 1 .. Len(lines) : Joins(calls[lines[k]], pts, e[1], e[2])
            /\ \A k \in 1 .. Len(lines) : \E e \in drawn : Joins(calls[lines[k]], pts, e[1], e[2])

\* four points of which two pick each other, so that an edge is found twice
C15_Witness ==
    /\ pout # <<>> /\ pin.fn = "connectNearestNeighbor"
    /\ Len(pin.points) = 4
    /\ \A i, j \in 1 .. 4 : i # j => pin.points[i] # pin.points[j]
    /\ Cardinality(pout[1].drawn) < 8
    /\ Len(LineCalls(pout[1].calls)) = Cardinality(pout[1].drawn)

----------------------------------------------------------------------------
(* The page: the events parseJsonl loaded, the module configuration, and   *)
(* the handlers that draw the preview, render a tile of the large image    *)
(* and download the instructions, in any order, one at a time.             *)

MaxDownloads == 1   \* downloads of the instructions in a behaviour
MaxLoaded == 2      \* events loaded

AppConfigs ==
    {LEWITT_CONFIG} \cup
    {[LEWITT_CONFIG EXCEPT !.minGridSize = 1, !.maxGridSize = g, !.seed = s] :
        g \in {1, 2}, s \in {0, 12345}}

InitApp ==
    /\ events \in {a \in EventArrays : Len(a) <= MaxLoaded /\ \A i \in 1 .. Len(a) : a[i].raw.present}
    /\ renderConfig \in AppConfigs
    /\ now = 0
    /\ run = IdleRun
    /\ passes = <<>>
    /\ instructions = <<>>
    /\ PageIdle
    /\ RngIdle
    /\ PureIdle

\* p.draw: drawLeWittGrid with LEWITT_CONFIG
Draw ==
    /\ run.pc # "cells"
    /\ Len(passes) < NumPasses
    /\ events' = passStart(renderConfig).events
    /\ run' = passStart(renderConfig).run
    /\ UNCHANGED <<renderConfig, now, passes, instructions, pageVars,
                 rngVars, pureVars>>

\* seed: LEWITT_CONFIG.seed || 12345
tileConfig(cfg) == [cfg EXCEPT !.seed = IF cfg.seed # 0 THEN cfg.seed ELSE 12345]

\* renderLeWittTile: drawLeWittGrid with the seed of the configuration or 12345
RenderLeWittTile ==
    /\ run.pc # "cells"
    /\ Len(passes) < NumPasses
    /\ events' = passStart(tileConfig(renderConfig)).events
    /\ run' = passStart(tileConfig(renderConfig)).run
    /\ UNCHANGED <<renderConfig, now, passes, instructions, pageVars,
                 rngVars, pureVars>>

\* downloadInstructions: the configuration handed to generateInstructions,
\* which prints its seed; prepareEvents is called for the grid size
DownloadInstructions ==
    /\ run.pc # "cells"
    /\ Len(instructions) < MaxDownloads
    /\ LET prep == prepareEvents(events, renderConfig)
       IN  /\ events' = prep.events
           /\ instructions' =
                  Append(instructions,
                         [seed |-> seedOf(renderConfig, now),
                          gridSize |-> calculateGridSize(Len(prep.prepared), renderConfig),
                          order |-> renderConfig.order,
                          maxEvents |-> renderConfig.maxEvents,
                          sampling |-> renderConfig.sampling])
    /\ UNCHANGED <<renderConfig, now, run, passes, pageVars,
                 rngVars, pureVars>>

NextApp ==
    Tick \/ Draw \/ RenderLeWittTile \/ DrawCellStep \/ FinishPass \/ DownloadInstructions

SpecApp == InitApp /\ [][NextApp]_vars

\* C16: the seed printed in the instructions is the seed the randomness of
\* the rendered drawing was derived from, whatever seed is configured.
C16_PrintedSeed ==
    \A k \in 1 .. Len(instructions) : \A p \in Ended :
        instructions[k].seed = passes[p].seed

----------------------------------------------------------------------------
(* The merge tool's recalculateElapsedMs.  An entry is a record read from  *)
(* a JSONL file: session_id, ts, event, and the optional elapsed_ms,       *)
(* original_elapsed_ms and merged_at, <<>> when the field is absent and    *)
(* <<v>> otherwise.  A JavaScript number is <<v>>, or <<>> when it is NaN. *)

MaxEntries == 3     \* entries handed to recalculateElapsedMs

SessionIds == {"a", "b"}
EntryTs == {10, 20}
ElapsedSet == {<<>>, <<5>>}

Entries ==
    [session_id : SessionIds, ts : EntryTs, event : {"edit"}, elapsed_ms : ElapsedSet,
     original_elapsed_ms : ElapsedSet, merged_at : {<<>>}]

EntryLists == UNION {[1 .. n -> Entries] : n \in 0 .. MaxEntries}

NaN == <<>>

\* a + b on numbers
plus(a, b) == IF a = NaN \/ b = NaN THEN NaN ELSE <<a[1] + b[1]>>

\* Math.max(a, b) on a number a and a number or undefined b
mathMax(a, b) == IF a = NaN \/ b = <<>> THEN NaN ELSE <<Max(a[1], b[1])>>

\* getOriginalElapsedMs
getOriginalElapsedMs(entry, sessionStartTs) ==
    IF entry.original_elapsed_ms # <<>> THEN entry.original_elapsed_ms
    ELSE <<entry.ts - sessionStartTs>>

\* the keys of sessionMap in insertion order, each as the index of the
\* session's first entry
sessionKeys(entries) ==
    pick([k \in 1 .. Len(entries) |-> k],
         {k \in 1 .. Len(entries) :
             \A j \in 1 .. k - 1 : entries[j].session_id # entries[k].session_id})

\* sessionMap.get(id) after sessionEntries.sort((a, b) => a.ts - b.ts)
sessionEntriesOf(entries, id) ==
    LET members == pick([k \in 1 .. Len(entries) |-> k],
                        {k \in 1 .. Len(entries) : entries[k].session_id = id})
        sorted == sortByKey(members, [k \in 1 .. Len(entries) |-> entries[k].ts])
    IN  [m \in 1 .. Len(sorted) |-> entries[sorted[m]]]

\* the sessions array: {entries, startTs} sorted by startTs
sessionsOf(entries) ==
    LET keys == sessionKeys(entries)
        all == [m \in 1 .. Len(keys) |->
                   LET own == sessionEntriesOf(entries, entries[keys[m]].session_id)
                   IN  [entries |-> own, startTs |-> own[1].ts]]
        order == sortByKey([m \in 1 .. Len(keys) |-> m],
                           [m \in 1 .. Len(keys) |-> all[m].startTs])
    IN  [m \in 1 .. Len(keys) |-> all[order[m]]]

\* maxElapsedInSession after the first n entries of a session
RECURSIVE maxElapsedInSession(_, _)
maxElapsedInSession(own, n) ==
    IF n = 0 THEN <<0>> ELSE mathMax(maxElapsedInSession(own, n - 1), own[n].elapsed_ms)

\* new Date().toISOString(): the time stamps of all runs stand as one
MergedAt == <<"now">>

\* the new entries of one session
sessionResult(session, sessionStartElapsed) ==
    [m \in 1 .. Len(session.entries) |->
        LET entry == session.entries[m]
            origElapsed == getOriginalElapsedMs(entry, session.startTs)
        IN  [entry EXCEPT !.elapsed_ms = plus(sessionStartElapsed, origElapsed),
                          !.original_elapsed_ms = origElapsed,
                          !.merged_at = MergedAt]]

\* the loop over the first n sessions: the result and cumulativeElapsedMs
RECURSIVE mergeLoop(_, _)
mergeLoop(sessions, n) ==
    IF n = 0 THEN [result |-> <<>>, cumulativeElapsedMs |-> <<0>>]
    ELSE LET before == mergeLoop(sessions, n - 1)
             sessionStartElapsed == before.cumulativeElapsedMs
         IN  [result |-> before.result \o sessionResult(sessions[n], sessionStartElapsed),
              cumulativeElapsedMs |->
                  plus(sessionStartElapsed,
                       maxElapsedInSession(sessions[n].entries, Len(sessions[n].entries)))]

recalculateElapsedMs(entries) ==
    IF Len(entries) = 0 THEN entries
    ELSE mergeLoop(sessionsOf(entries), Len(sessionsOf(entries))).result

InitMerge ==
    /\ pin \in [fn : {"recalculateElapsedMs"}, entries : EntryLists]
    /\ pout = <<>>
    /\ RngIdle
    /\ GridIdle

ApplyMerge ==
    /\ pout = <<>>
    /\ pin.fn = "recalculateElapsedMs"
    /\ pout' = <<recalculateElapsedMs(pin.entries)>>
    /\ UNCHANGED <<pin, rngVars, gridVars>>

SpecMerge == InitMerge /\ [][ApplyMerge]_vars

\* the first timestamp of a session of the input
firstTs(entries, id) ==
    CHOOSE t \in EntryTs :
        /\ \E k \in 1 .. Len(entries) : entries[k].session_id = id /\ entries[k].ts = t
        /\ \A k \in 1 .. Len(entries) : entries[k].session_id = id => t <= entries[k].ts

\* C17: in the output of recalculateElapsedMs the sessions come in the order
\* of their first timestamp, every elapsed_ms is a number, also when input
\* entries have no elapsed_ms, and elapsed_ms never decreases along the
\* output.
C17_ElapsedContiguous ==
    (pout # <<>> /\ pin.fn = "recalculateElapsedMs") =>
        LET out == pout[1]
        IN  /\ Len(out) = Len(pin.entries)
            /\ \A k \in 1 .. Len(out) : out[k].elapsed_ms # NaN
            /\ \A k \in 1 .. Len(out) - 1 :
                   /\ out[k].elapsed_ms[1] <= out[k + 1].elapsed_ms[1]
                   /\ firstTs(pin.entries, out[k].session_id)
                          <= firstTs(pin.entries, out[k + 1].session_id)

----------------------------------------------------------------------------
(* The merge tool run twice.  A run reads merged.jsonl, if there is one,   *)
(* and then the session files, removes duplicates, recalculates elapsed_ms *)
(* and writes merged.jsonl.                                                *)

MaxFileEntries == 3     \* entries in the session files

\* entries of session files: every one has its elapsed_ms, none the fields
\* the merge adds
FileEntries ==
    [session_id : SessionIds, ts : EntryTs, event : {"edit"}, elapsed_ms : {<<0>>, <<5>>},
     original_elapsed_ms : {<<>>}, merged_at : {<<>>}]

FileEntryLists == UNION {[1 .. n -> FileEntries] : n \in 0 .. MaxFileEntries}

\* `${entry.ts}_${entry.session_id}_${entry.event}`
entryKey(entry) == <<entry.ts, entry.session_id, entry.event>>

\* deduplicateEntries: the keys in the order of their first entry, each with
\* the last entry set under it: the first one, or a later one without
\* merged_at
deduplicateEntries(entries) ==
    LET firsts == {k \in 1 .. Len(entries) :
                      \A j \in 1 .. k - 1 : entryKey(entries[j]) # entryKey(entries[k])}
        sets(k) == {j \in k .. Len(entries) :
                       /\ entryKey(entries[j]) = entryKey(entries[k])
                       /\ (j = k \/ entries[j].merged_at = <<>>)}
        last(k) == CHOOSE j \in sets(k) : \A i \in sets(k) : i <= j
    IN  pick([k \in 1 .. Len(entries) |-> entries[last(k)]], firsts)

\* the entries without original_elapsed_ms
withoutOriginal(entries) ==
    [k \in 1 .. Len(entries) |-> [entries[k] EXCEPT !.original_elapsed_ms = <<>>]]

\* main: the entries written to merged.jsonl
mergedEntries(merged, sessionFiles, keepOriginalElapsed) ==
    LET recalculated == recalculateElapsedMs(deduplicateEntries(merged \o sessionFiles))
    IN  IF keepOriginalElapsed THEN recalculated ELSE withoutOriginal(recalculated)

InitRemerge ==
    /\ pin \in [fn : {"main"}, sessionFiles : FileEntryLists, keepOriginal : BOOLEAN,
                 filesKept : BOOLEAN]
    /\ pout = <<>>
    /\ RngIdle
    /\ GridIdle

\* the first run: no merged.jsonl yet
FirstMerge ==
    /\ pin.fn = "main" /\ pout = <<>>
    /\ pout' = <<mergedEntries(<<>>, pin.sessionFiles, pin.keepOriginal)>>
    /\ UNCHANGED <<pin, rngVars, gridVars>>

\* the next run, on the merged.jsonl of the first and the session files if
\* they are still there
SecondMerge ==
    /\ pin.fn = "main" /\ Len(pout) = 1
    /\ pout' = Append(pout, mergedEntries(pout[1],
                                          IF pin.filesKept THEN pin.sessionFiles ELSE <<>>,
                                          pin.keepOriginal))
    /\ UNCHANGED <<pin, rngVars, gridVars>>

NextRemerge == FirstMerge \/ SecondMerge

SpecRemerge == InitRemerge /\ [][NextRemerge]_vars

\* C28: a second run on a written merged.jsonl, with or without the session
\* files, writes the same entries by key, each with the elapsed_ms it had.
C28_MergeIdempotent ==
    (pin.fn = "main" /\ Len(pout) = 2) =>
        /\ Len(pout[2]) = Len(pout[1])
        /\ \A k \in 1 .. Len(pout[1]) :
               \E j \in 1 .. Len(pout[2]) :
                   /\ entryKey(pout[2][j]) = entryKey(pout[1][k])
                   /\ pout[2][j].elapsed_ms = pout[1][k].elapsed_ms

----------------------------------------------------------------------------
(* prepareEvents applied to the events of one parsed log under each order. *)
(* The kind of a record is an open tag: ai_response stands for a kind that *)
(* the renderer does not name.                                             *)

MaxOrdered == 4     \* events handed to prepareEvents

\* the timestamps of the records, by position in the log
OrderTs == <<30, 10, 20, 40, 50>>

OrderKinds == {"edit", "snapshot", "session_start", "ai_prompt", "ai_response"}

\* the characters an edit adds, by position in the log
OrderChars == <<40, 1000, 2, 80, 3000>>

\* the record at position k
orderedEvent(kind, k) ==
    withSeverity(normalizeEvent(
        Event(OrderTs[k], kind, "human",
              IF kind = "edit" THEN Delta(OrderChars[k], 0) ELSE NoDelta, 0, "none")))

OrderLogs ==
    UNION {{[k \in 1 .. n |-> orderedEvent(kinds[k], k)] : kinds \in [1 .. n -> OrderKinds]} :
              n \in 0 .. MaxOrdered}

OrderConfigs == {[LEWITT_CONFIG EXCEPT !.order = o] : o \in {"time", "severity", "type_blocks"}}

InitOrder ==
    /\ pin \in [fn : {"prepareEvents"}, events : OrderLogs, config : OrderConfigs]
    /\ pout = <<>>
    /\ RngIdle
    /\ GridIdle

\* the returned array, as event objects
ApplyOrder ==
    /\ pout = <<>>
    /\ pin.fn = "prepareEvents"
    /\ LET prep == prepareEvents(pin.events, pin.config)
       IN  pout' = <<[k \in 1 .. Len(prep.prepared) |-> prep.events[prep.prepared[k]]]>>
    /\ UNCHANGED <<pin, rngVars, gridVars>>

SpecOrder == InitOrder /\ [][ApplyOrder]_vars

\* C20: prepareEvents returns its events in ascending ts for 'time', in
\* descending severity for 'severity', and for 'type_blocks' with the events
\* of one kind contiguous, the kinds of typeOrder in that order and ascending
\* ts inside a kind.
C20_ConfiguredOrder ==
    (pout # <<>> /\ pin.fn = "prepareEvents") =>
        LET out == pout[1]
            pairs == {p \in (1 .. Len(out)) \X (1 .. Len(out)) : p[1] < p[2]}
        IN  CASE pin.config.order = "time" ->
                     \A p \in pairs : out[p[1]].ts <= out[p[2]].ts
              [] pin.config.order = "severity" ->
                     \A p \in pairs : out[p[1]].severity >= out[p[2]].severity
              [] pin.config.order = "type_blocks" ->
                     \A p \in pairs :
                         /\ out[p[1]].event = out[p[2]].event =>
                                /\ out[p[1]].ts <= out[p[2]].ts
                                /\ \A j \in p[1] .. p[2] : out[j].event = out[p[1]].event
                         /\ (indexOfType(out[p[1]].event) >= 0
                             /\ indexOfType(out[p[2]].event) >= 0) =>
                                indexOfType(out[p[1]].event) <= indexOfType(out[p[2]].event)

----------------------------------------------------------------------------
(* The render button and renderB1Tiles.  A click handler runs until its    *)
(* next await; the 50 ms timer of a render, the toBlob callback and the    *)
(* 2 s timer run when no handler is running.  A tile's drawLeWittGrid pass *)
(* is the pass of the grid composer above, drawn at the preview's size.    *)

MaxClicks == 2      \* clicks on the render button in a behaviour

\* TILE_CONFIG.cols and TILE_CONFIG.rows
TileCols == 2
TileRows == 4

\* a renderB1Tiles call at its first tile
NewJob ==
    [pc |-> "tile", row |-> 0, col |-> 0, reports |-> <<>>, tiles |-> <<>>,
     copied |-> <<>>]

\* the steps of a render that run inside a handler
Busy == {"tile", "pass"}

\* no handler is running
LoopFree == run.pc # "cells" /\ \A j \in 1 .. Len(jobs) : jobs[j].pc \notin Busy

\* the click handler leaves the button as it found it
pressedLeftEnabled(b) == [b EXCEPT !.textContent = "Rendering..."]

\* button.disabled = true; button.textContent = 'Rendering...'
pressed(b) == [b EXCEPT !.disabled = TRUE, !.textContent = "Rendering..."]

\* button.disabled = false; button.textContent = 'Render B1 (8 tiles)'
restored(b) == [b EXCEPT !.disabled = FALSE, !.textContent = IdleButton.textContent]

InitTiles ==
    /\ events \in {a \in EventArrays : Len(a) <= MaxLoaded /\ \A i \in 1 .. Len(a) : a[i].raw.present}
    /\ renderConfig \in AppConfigs
    /\ now = 0
    /\ run = IdleRun
    /\ passes = <<>>
    /\ instructions = <<>>
    /\ PageIdle
    /\ RngIdle
    /\ PureIdle

\* a click on the enabled button: the handler disables it and calls
\* renderB1Tiles, which sets up the final canvas
ClickRender ==
    /\ LoopFree
    /\ ~button.disabled
    /\ Len(jobs) < MaxClicks
    /\ button' = pressed(button)
    /\ jobs' = Append(jobs, NewJob)
    /\ UNCHANGED <<events, renderConfig, now, run, passes, instructions, rngVars, pureVars>>

\* the head of the loop body: progressCallback, createGraphics and
\* renderLeWittTile up to the loop of drawLeWittGrid
TileBegin ==
    \E j \in 1 .. Len(jobs) :
        /\ jobs[j].pc = "tile"
        /\ run.pc # "cells"
        /\ jobs' = [jobs EXCEPT ![j].pc = "pass",
                                ![j].reports = Append(@, <<jobs[j].row * TileCols + jobs[j].col + 1,
                                                           TileCols * TileRows>>)]
        /\ events' = passStart(tileConfig(renderConfig)).events
        /\ run' = passStart(tileConfig(renderConfig)).run
        /\ UNCHANGED <<renderConfig, now, passes, instructions, button, rngVars, pureVars>>

\* drawLeWittGrid returned: drawImage at the tile's offset, remove, and the
\* await of the 50 ms timer
TileEnd ==
    \E j \in 1 .. Len(jobs) :
        /\ jobs[j].pc = "pass"
        /\ run.pc = "done"
        /\ LET lastCol == jobs[j].col + 1 = TileCols
           IN  jobs' = [jobs EXCEPT
                           ![j].pc = "yield",
                           ![j].tiles = Append(@, [seed |-> run.seed, gridSize |-> run.gridSize,
                                                   config |-> tileConfig(renderConfig),
                                                   prepared |-> [k \in 1 .. Len(run.prepared) |->
                                                                    events[run.prepared[k]]]]),
                           ![j].copied = Append(@, <<jobs[j].col, jobs[j].row>>),
                           ![j].col = IF lastCol THEN 0 ELSE @ + 1,
                           ![j].row = IF lastCol THEN @ + 1 ELSE @]
        /\ UNCHANGED <<events, renderConfig, now, run, passes, instructions, button,
                       rngVars, pureVars>>

\* drawLeWittGrid threw: renderB1Tiles rejects and the catch block of the
\* click handler restores the button
TileThrow ==
    \E j \in 1 .. Len(jobs) :
        /\ jobs[j].pc = "pass"
        /\ run.pc = "thrown"
        /\ jobs' = [jobs EXCEPT ![j].pc = "failed"]
        /\ button' = restored(button)
        /\ UNCHANGED <<events, renderConfig, now, run, passes, instructions, rngVars, pureVars>>

\* the 50 ms timer fires: the next tile, or the return of the final canvas,
\* on which the click handler calls toBlob
TileResume ==
    \E j \in 1 .. Len(jobs) :
        /\ LoopFree
        /\ jobs[j].pc = "yield"
        /\ jobs' = [jobs EXCEPT ![j].pc = IF jobs[j].row < TileRows THEN "tile" ELSE "export"]
        /\ UNCHANGED <<events, renderConfig, now, run, passes, instructions, button,
                       rngVars, pureVars>>

\* the toBlob callback: with a blob it saves the image and sets the 2 s
\* timer; with null, URL.createObjectURL throws inside the callback
ToBlobCallback ==
    \E j \in 1 .. Len(jobs) :
        /\ LoopFree
        /\ jobs[j].pc = "export"
        /\ \E blob \in BOOLEAN :
               jobs' = [jobs EXCEPT ![j].pc = IF blob THEN "saved" ELSE "exportFailed"]
        /\ UNCHANGED <<events, renderConfig, now, run, passes, instructions, button,
                       rngVars, pureVars>>

\* the 2 s timer fires
RestoreButton ==
    \E j \in 1 .. Len(jobs) :
        /\ LoopFree
        /\ jobs[j].pc = "saved"
        /\ jobs' = [jobs EXCEPT ![j].pc = "done"]
        /\ button' = restored(button)
        /\ UNCHANGED <<events, renderConfig, now, run, passes, instructions, rngVars, pureVars>>

\* everything but the user's click
RenderStep ==
    \/ DrawCellStep
    \/ FinishPass
    \/ TileBegin
    \/ TileEnd
    \/ TileThrow
    \/ TileResume
    \/ ToBlobCallback
    \/ RestoreButton

NextTiles == ClickRender \/ RenderStep

SpecTiles == InitTiles /\ [][NextTiles]_vars

\* the renders whose renderB1Tiles call has neither returned nor thrown
InProgress == {j \in 1 .. Len(jobs) : jobs[j].pc \in {"tile", "pass", "yield"}}

\* C23: a render reports (tile index + 1, total) and copies its tiles in
\* row-major order, one complete drawLeWittGrid pass per tile between the
\* report and the copy, no two passes at once, every pass on the same
\* prepared events, configuration and seed, and all cols * rows tiles done
\* when it returns.
C23_TilesInOrder ==
    /\ Cardinality({j \in 1 .. Len(jobs) : jobs[j].pc \in Busy}) <= 1
    /\ \A j \in 1 .. Len(jobs) :
          LET job == jobs[j]
          IN  /\ \A k \in 1 .. Len(job.reports) : job.reports[k] = <<k, TileCols * TileRows>>
              /\ \A k \in 1 .. Len(job.copied) :
                     job.copied[k] = <<(k - 1) % TileCols, (k - 1) \div TileCols>>
              /\ Len(job.tiles) = Len(job.copied)
              /\ Len(job.reports) = Len(job.copied) + (IF job.pc = "pass" THEN 1 ELSE 0)
              /\ \A k \in 1 .. Len(job.tiles) : job.tiles[k] = job.tiles[1]
              /\ job.pc # "failed"
              /\ job.pc \notin {"tile", "pass", "yield"} => Len(job.copied) = TileCols * TileRows

\* C26: while a render is in progress the button is disabled, and no second
\* render is in progress beside it.
C26_OneRender ==
    /\ InProgress # {} => button.disabled
    /\ Cardinality(InProgress) <= 1

\* a second render, started by a click after the first one had ended and
\* the button had been restored, is between two tiles
C26_Witness ==
    /\ Len(jobs) = 2
    /\ jobs[1].pc = "done"
    /\ jobs[2].pc = "yield" /\ Len(jobs[2].copied) >= 1
    /\ button.disabled

\* no handler, timer or callback of any render is left to run
Settled ==
    /\ run.pc # "cells"
    /\ \A j \in 1 .. Len(jobs) : jobs[j].pc \in {"done", "failed", "exportFailed"}

\* C27: after every click the button is eventually enabled again with its
\* label restored, whether the render succeeds, throws, or the export
\* callback fails: once nothing of the renders is left to run, the button
\* is as it was before the click.
C27_ButtonRestored == Settled => button = IdleButton

============================================================================
